---- MODULE Spec2Model ----
(***************************************************************************)
(* A model of the wiux MQTT client: the wire codec (types/mod.rs,          *)
(* types/header.rs, types/payload.rs), the topic-filter validator          *)
(* (topic_matcher.rs) and the connection / request / dispatch engine       *)
(* (client.rs).                                                            *)
(*                                                                         *)
(* Strings are sequences of byte values (their UTF-8 bytes), Option<T> is  *)
(* a sequence of length 0 (None) or 1 (Some), and a Result is a record     *)
(* tagged "Ok" or "Err".                                                   *)
(***************************************************************************)
EXTENDS Integers, Sequences, FiniteSets, TLC

VARIABLES
    client,             \* Client's immutable fields: client_id, server_connection, clean_session, will
    tcp_stream,         \* Client.tcp_stream: the transport the client holds
    intent_disconnect,  \* Client.intent_disconnect
    closed,             \* transports whose peer has closed (a read has returned zero bytes)
    writes,             \* every write_all call, in order: who wrote what on which transport
    result,             \* the last finished request: its name, its arguments, what it returned
    dpc,                \* position inside disconnect(): "idle" or "write"
    ops,                \* number of requests issued so far
    pc,                 \* position of do_loop: "idle", "read", "decode", "returned", "aborted"
    callbacks,          \* the callbacks registered in the Callbacks value given to do_loop
    bytes,              \* do_loop's byte queue
    reads,              \* number of transport reads so far
    log,                \* what do_loop did: every read and every decode with its dispatch
    writers,            \* per caller thread: the request it is in and the bytes write_all still holds
    stream              \* the bytes the write() calls of requests have put on the transport, in order

vars == <<client, tcp_stream, intent_disconnect, closed, writes, result, dpc, ops,
          pc, callbacks, bytes, reads, log, writers, stream>>

----------------------------------------------------------------------------
(* Bounds of the model *)

\* transport reads per run of do_loop
MaxReads == 2
\* requests (publish, subscribe, unsubscribe, disconnect) per behaviour
MaxOps == 1
\* longest topic filter handed to subscribe, in characters
MaxFilterLen == 2
\* longest topic filter handed to TopicMatcher::new and matches, in characters
MaxMatcherFilterLen == 3
\* longest topic name handed to matches, in characters
MaxTopicLen == 4
\* longest level put where a '+' stands in the filter, in characters
MaxLevelLen == 2
\* levels put where a '+' stands in the filter, beyond the one it stands for
MaxExtraLevels == 1
\* threads that hold a reference to the client and issue one request each
MaxWriters == 2
\* write() calls of one write_all that accept only a part of the buffer
MaxPartialWrites == 1
\* longest body of a packet handed to from_bytes, in bytes
MaxBodyLen == 4

----------------------------------------------------------------------------
(* Characters and small helpers *)

Slash == 47
Plus == 43
Hash == 35

None == <<>>
Some(x) == <<x>>
IsSome(o) == Len(o) = 1
Unwrap(o) == o[1]

Ok(v) == [tag |-> "Ok", val |-> v]
Err(e, v) == [tag |-> "Err", err |-> e, val |-> v]

Last(s) == s[Len(s)]

\* the threads that share the client, and a thread that has not called anything yet
Threads == 1..MaxWriters
IdleWriter == [st |-> "idle", op |-> "none", args |-> <<>>, data |-> <<>>, rest |-> <<>>,
               parts |-> 0, ret |-> None]

\* a finished call: the operation, its arguments and the value it returned
Returned(op, args, ret) == [op |-> op, args |-> args, ret |-> ret]

\* how a call of a function ends: with a value, or in a panic
Returns(value) == [out |-> "Return", value |-> Some(value)]
Panics == [out |-> "Panic", value |-> None]

RECURSIVE Pow2(_)
Pow2(n) == IF n = 0 THEN 1 ELSE 2 * Pow2(n - 1)

RECURSIVE Concat(_)
Concat(ss) == IF ss = <<>> THEN <<>> ELSE Head(ss) \o Concat(Tail(ss))

\* all sequences over alphabet A of length at most n
SeqsUpTo(A, n) == UNION {[1..k -> A] : k \in 0..n}

----------------------------------------------------------------------------
(* Primitives: types/mod.rs *)

\* format!("{:b}", val): the binary digits of val, most significant first, no leading zeros
RECURSIVE BinDigits(_)
BinDigits(val) == IF val < 2 THEN <<val>> ELSE BinDigits(val \div 2) \o <<val % 2>>

\* Byte::new: bits[i] is the i-th character of the binary text, the rest stay 0
ByteNew(val) ==
    LET s == BinDigits(val)
    IN  [i \in 1..8 |-> IF i <= Len(s) THEN s[i] ELSE 0]

RECURSIVE SumBits(_, _)
SumBits(bits, i) == IF i > 8 THEN 0 ELSE bits[i] * Pow2(i - 1) + SumBits(bits, i + 1)

\* Byte::to_u8: res += bits[i] * 2^i, i counted from 0
ByteToU8(b) == SumBits(b, 1) % 256

\* Integer::new(val: u16): to_be_bytes, one Byte each
IntegerNew(val) == [msb |-> ByteNew((val % 65536) \div 256), lsb |-> ByteNew(val % 256)]

IntegerToBytes(n) == <<ByteToU8(n.msb), ByteToU8(n.lsb)>>

IntegerToU16(n) == ByteToU8(n.msb) * 256 + ByteToU8(n.lsb)

\* EncodedString::new: len = s.len() as u16, value = the bytes
EncodedStringNew(s) == [len |-> IntegerNew(Len(s) % 65536), value |-> s]

EncodedStringToBytes(e) == IntegerToBytes(e.len) \o e.value

QOS == {"Zero", "One", "Two"}

----------------------------------------------------------------------------
(* Wire codec, encoding side: types/header.rs, types/payload.rs, types/mod.rs *)

\* Variant of FixedHeaderToBytes that leaves the dup flag out of the PUBLISH byte
FixedHeaderToBytes_IgnoresDup(fixed) ==
    LET first ==
            CASE fixed.kind = "Connect" -> <<Pow2(4)>>
              [] fixed.kind = "Publish" ->
                    <<Pow2(5) + Pow2(4)
                      + (IF fixed.retain THEN Pow2(0) ELSE 0)
                      + (CASE fixed.qos = "One" -> Pow2(1)
                           [] fixed.qos = "Two" -> Pow2(2)
                           [] OTHER -> 0)>>
              [] fixed.kind = "Subscribe" -> <<Pow2(7) + Pow2(1)>>
              [] fixed.kind = "Unsubscribe" -> <<Pow2(7) + Pow2(5) + Pow2(1)>>
              [] fixed.kind = "Pingreq" -> <<Pow2(7) + Pow2(6)>>
              [] fixed.kind = "Disconnect" -> <<Pow2(6) + Pow2(5)>>
              [] OTHER -> <<>>
    IN  first \o <<0>>

FixedHeaderToBytes(fixed) ==
    LET first ==
            CASE fixed.kind = "Connect" -> <<Pow2(4)>>
              [] fixed.kind = "Publish" ->
                    <<Pow2(5) + Pow2(4)
                      + (IF fixed.dup THEN Pow2(3) ELSE 0)
                      + (IF fixed.retain THEN Pow2(0) ELSE 0)
                      + (CASE fixed.qos = "One" -> Pow2(1)
                           [] fixed.qos = "Two" -> Pow2(2)
                           [] OTHER -> 0)>>
              [] fixed.kind = "Subscribe" -> <<Pow2(7) + Pow2(1)>>
              [] fixed.kind = "Unsubscribe" -> <<Pow2(7) + Pow2(5) + Pow2(1)>>
              [] fixed.kind = "Pingreq" -> <<Pow2(7) + Pow2(6)>>
              [] fixed.kind = "Disconnect" -> <<Pow2(6) + Pow2(5)>>
              [] OTHER -> <<>>
    IN  first \o <<0>>

VariableHeaderToBytes(v) ==
    CASE v.kind = "Connect" ->
            EncodedStringToBytes(v.protocol_name)
            \o <<ByteToU8(v.protocol_level)>>
            \o <<ByteToU8(v.connect_flags)>>
            \o IntegerToBytes(v.keep_alive)
      [] v.kind = "Publish" -> EncodedStringToBytes(v.topic_name) \o IntegerToBytes(v.packet_id)
      [] v.kind = "Subscribe" -> IntegerToBytes(v.packet_id)
      [] v.kind = "Unsubscribe" -> IntegerToBytes(v.packet_id)
      [] OTHER -> <<>>

HeaderToBytes(h) ==
    FixedHeaderToBytes(h.fixed)
    \o (IF IsSome(h.variable) THEN VariableHeaderToBytes(Unwrap(h.variable)) ELSE <<>>)

ConnectPayloadNew(client_id, will_topic, will_message, username, password) ==
    [client_id |-> EncodedStringNew(client_id),
     will_topic |-> IF IsSome(will_topic) THEN Some(EncodedStringNew(Unwrap(will_topic))) ELSE None,
     will_message |-> IF IsSome(will_message) THEN Some(EncodedStringNew(Unwrap(will_message))) ELSE None,
     username |-> IF IsSome(username) THEN Some(EncodedStringNew(Unwrap(username))) ELSE None,
     password |-> IF IsSome(password) THEN Some(EncodedStringNew(Unwrap(password))) ELSE None]

OptStringToBytes(o) == IF IsSome(o) THEN EncodedStringToBytes(Unwrap(o)) ELSE <<>>

ConnectPayloadToBytes(p) ==
    EncodedStringToBytes(p.client_id)
    \o OptStringToBytes(p.will_topic)
    \o OptStringToBytes(p.will_message)
    \o OptStringToBytes(p.username)
    \o OptStringToBytes(p.password)

SubscribePayloadToBytes(t) ==
    EncodedStringToBytes(t.topic_filter)
    \o (CASE t.qos = "One" -> <<1>>
          [] t.qos = "Two" -> <<2>>
          [] OTHER -> <<0>>)

PayloadsToBytes(p) ==
    CASE p.kind = "Connect" -> ConnectPayloadToBytes(p.content)
      [] p.kind = "Publish" -> p.content
      [] p.kind = "Subscribe" ->
            Concat([i \in 1..Len(p.content) |-> SubscribePayloadToBytes(p.content[i])])
      [] p.kind = "Unsubscribe" ->
            Concat([i \in 1..Len(p.content) |-> EncodedStringToBytes(p.content[i])])
      [] OTHER -> <<>>

PayloadToBytes(payload) == IF IsSome(payload) THEN PayloadsToBytes(Unwrap(payload)) ELSE <<>>

\* ControlPacket::to_bytes before the length is stored: header, then payload
ToBytesRes(packet) == HeaderToBytes(packet.header) \o PayloadToBytes(packet.payload)

\* ControlPacket::to_bytes: header, payload, then res[1] = res.len() as u8
ControlPacketToBytes(packet) ==
    LET res == ToBytesRes(packet)
    IN  [res EXCEPT ![2] = Len(res) % 256]

\* ControlPacket::to_bytes as a call: res[1] is out of range, and the call panics,
\* when header and payload make up a single byte
ToBytes(packet) ==
    IF Len(ToBytesRes(packet)) < 2 THEN Panics ELSE Returns(ControlPacketToBytes(packet))

----------------------------------------------------------------------------
(* Topic filter validation: topic_matcher.rs *)

Contains(s, c) == \E i \in 1..Len(s) : s[i] = c

EndsWith(s, c) == Len(s) > 0 /\ s[Len(s)] = c

\* str::split('/'): the levels of s, cur being the level under construction
RECURSIVE SplitLevels(_, _)
SplitLevels(s, cur) ==
    IF s = <<>> THEN <<cur>>
    ELSE IF Head(s) = Slash THEN <<cur>> \o SplitLevels(Tail(s), <<>>)
    ELSE SplitLevels(Tail(s), Append(cur, Head(s)))

Split(s) == SplitLevels(s, <<>>)

\* Variant of TopicMatcherNew that leaves out the check of the single levels
TopicMatcherNew_NoLevelCheck(topic_filter) ==
    IF Contains(topic_filter, Hash) /\ ~EndsWith(topic_filter, Hash)
    THEN Err("InvalidTopicMatcherError", topic_filter)
    ELSE Ok([topic_filter |-> topic_filter])

TopicMatcherNew(topic_filter) ==
    LET levels == Split(topic_filter)
        topic == [i \in 1..Len(levels) |->
                    ~((Contains(levels[i], Hash) \/ Contains(levels[i], Plus))
                      /\ Len(levels[i]) > 1)]
    IN  IF Contains(topic_filter, Hash) /\ ~EndsWith(topic_filter, Hash)
        THEN Err("InvalidTopicMatcherError", topic_filter)
        ELSE IF \A i \in 1..Len(levels) : topic[i]
        THEN Ok([topic_filter |-> topic_filter])
        ELSE Err("InvalidTopicMatcherError", topic_filter)

----------------------------------------------------------------------------
(* Topic matching: TopicMatcher::matches, a walk over the characters of the *)
(* filter (sub) and of the topic name, positions counted from 0             *)

\* Vec::get(p).is_some() and the indexing v[p]
Has(v, p) == p >= 0 /\ p < Len(v)
At(v, p) == v[p + 1]

\* Variant of SkipLevel that runs over every '/' to the end of the topic
SkipLevel_AcrossSlash(topic, topic_p) ==
    IF topic_p < Len(topic) THEN Len(topic) ELSE topic_p

\* while topic.get(topic_p).is_some() && topic[topic_p] != '/' { topic_p += 1 }
SkipLevel(topic, topic_p) ==
    IF \E q \in topic_p..(Len(topic) - 1) : At(topic, q) = Slash
    THEN CHOOSE q \in topic_p..(Len(topic) - 1) :
            /\ At(topic, q) = Slash
            /\ \A r \in topic_p..(q - 1) : At(topic, r) # Slash
    ELSE IF topic_p < Len(topic) THEN Len(topic) ELSE topic_p

\* Variant of HashBranch that returns result as it stands, without setting it
HashBranch_KeepsResult(topic, topic_p) == Returns(FALSE)

\* The '#' branch: topic_p runs to the end of the topic, then result = true is
\* returned, whatever the filter holds after the '#'
HashBranch(topic, topic_p) == Returns(TRUE)

\* The while loop of matches from the state (spos, sub_p, topic_p) on, and the
\* statements after it; result is false whenever the loop is left or goes round.
RECURSIVE MatchLoop(_, _, _, _, _)
MatchLoop(sub, topic, spos, sub_p, topic_p) ==
    IF ~Has(sub, sub_p)
    THEN \* while sub.get(sub_p).is_some() fails: result is returned as it is
         Returns(FALSE)
    ELSE IF ~Has(topic, topic_p)
    THEN \* sub[sub_p] != topic[topic_p] indexes the topic before
         \* topic.get(topic_p).is_none() is asked
         Panics
    ELSE IF At(sub, sub_p) # At(topic, topic_p)
    THEN IF At(sub, sub_p) = Plus
         THEN LET next_p == SkipLevel(topic, topic_p)
              IN  IF ~Has(topic, next_p) /\ ~Has(sub, sub_p + 1)
                  THEN Returns(TRUE)
                  ELSE MatchLoop(sub, topic, spos + 1, sub_p + 1, next_p)
         ELSE IF At(sub, sub_p) = Hash
         THEN HashBranch(topic, topic_p)
         ELSE IF /\ ~Has(topic, topic_p)
                 /\ spos > 0
                 /\ At(sub, sub_p - 1) = Plus
                 /\ At(sub, sub_p) = Slash
                 /\ At(sub, sub_p + 1) = Hash
         THEN Returns(TRUE)
         ELSE \* the rest of the filter is skipped and result returned
              Returns(FALSE)
    ELSE IF /\ ~Has(topic, topic_p + 1)
            /\ Has(sub, sub_p + 1) /\ At(sub, sub_p + 1) = Slash
            /\ Has(sub, sub_p + 2) /\ At(sub, sub_p + 2) = Hash
            /\ ~Has(sub, sub_p + 3)
    THEN Returns(TRUE)
    ELSE IF \/ ~Has(sub, sub_p + 1) /\ ~Has(topic, topic_p + 1)
            \/ /\ ~Has(topic, topic_p + 1)
               /\ At(sub, sub_p + 1) = Plus
               /\ ~Has(sub, sub_p + 2)
    THEN Returns(TRUE)
    ELSE MatchLoop(sub, topic, spos + 1, sub_p + 1, topic_p + 1)

\* TopicMatcher::matches: only a message with a PUBLISH variable header is walked
Matches(self, msg) ==
    IF IsSome(msg.header.variable) /\ Unwrap(msg.header.variable).kind = "Publish"
    THEN MatchLoop(self.topic_filter, Unwrap(msg.header.variable).topic_name.value, 0, 0, 0)
    ELSE Returns(FALSE)

----------------------------------------------------------------------------
(* Wire codec, decoding side: ControlPacket::from_bytes *)

NoPayloadPacket(fixedKind, variable) ==
    [header |-> [fixed |-> [kind |-> fixedKind], variable |-> Some(variable)],
     payload |-> None]

PacketIdOf(buf) == [msb |-> ByteNew(buf[1]), lsb |-> ByteNew(buf[2])]

\* Variant of SubAckCode that takes every code above 0 for a failure
SubAckCode_OnlyZeroGranted(b) ==
    CASE b = 0 -> Ok("Zero")
      [] OTHER -> Err("SubscriptionAckhowledgeFailureError", <<>>)

SubAckCode(b) ==
    CASE b = 0 -> Ok("Zero")
      [] b = 1 -> Ok("One")
      [] b = 2 -> Ok("Two")
      [] OTHER -> Err("SubscriptionAckhowledgeFailureError", <<>>)

\* The match on packet_type, buf holding the body; "Panic" where buf[0] or buf[1]
\* is read from a body shorter than two bytes.
DecodeBody(packet_type, buf) ==
    LET short == Len(buf) < 2
        some(p) == [out |-> "Some", packet |-> Some(p)]
        panic == [out |-> "Panic", packet |-> None]
    IN  CASE packet_type = 32 ->
                IF short THEN panic
                ELSE some(NoPayloadPacket("Connack",
                        [kind |-> "Conack",
                         connect_acknowledge_flags |-> ByteNew(buf[1]),
                         connect_return_code |-> ByteNew(buf[2])]))
          [] packet_type = 64 ->
                IF short THEN panic
                ELSE some(NoPayloadPacket("Puback", [kind |-> "Puback", packet_id |-> PacketIdOf(buf)]))
          [] packet_type = 80 ->
                IF short THEN panic
                ELSE some(NoPayloadPacket("Pubrec", [kind |-> "Pubrec", packet_id |-> PacketIdOf(buf)]))
          [] packet_type = 98 ->
                IF short THEN panic
                ELSE some(NoPayloadPacket("Pubrel", [kind |-> "Pubrel", packet_id |-> PacketIdOf(buf)]))
          [] packet_type = 112 ->
                IF short THEN panic
                ELSE some(NoPayloadPacket("Pubcomp", [kind |-> "Pubcomp", packet_id |-> PacketIdOf(buf)]))
          [] packet_type = 144 ->
                IF short THEN panic
                ELSE some([header |-> [fixed |-> [kind |-> "Suback"],
                                       variable |-> Some([kind |-> "Suback",
                                                          packet_id |-> PacketIdOf(buf)])],
                           payload |-> Some([kind |-> "SubAcknowledge",
                                             content |-> [i \in 1..(Len(buf) - 2) |->
                                                            SubAckCode(buf[i + 2])]])])
          [] packet_type = 176 ->
                IF short THEN panic
                ELSE some(NoPayloadPacket("Unsuback", [kind |-> "Unsuback", packet_id |-> PacketIdOf(buf)]))
          [] packet_type = 208 ->
                some([header |-> [fixed |-> [kind |-> "Pingresp"], variable |-> None],
                      payload |-> None])
          [] OTHER -> [out |-> "None", packet |-> None]

\* Variant of FromBytes that pops the body only when the type byte is recognised
FromBytes_KeepsUnknownBody(q) ==
    IF Len(q) = 0 THEN [out |-> "None", packet |-> None, rest |-> q]
    ELSE IF Len(q) = 1 THEN [out |-> "Panic", packet |-> None, rest |-> <<>>]
    ELSE IF Len(q) - 2 < q[2] THEN [out |-> "Panic", packet |-> None, rest |-> <<>>]
    ELSE LET len == q[2]
             d == DecodeBody(q[1], SubSeq(q, 3, 2 + len))
         IN  [out |-> d.out, packet |-> d.packet,
              rest |-> IF d.out = "None" THEN SubSeq(q, 3, Len(q))
                       ELSE SubSeq(q, 3 + len, Len(q))]

\* ControlPacket::from_bytes on the queue q: the outcome, the packet and the queue
\* it leaves. The bytes popped before an expect() fails are gone from the queue.
FromBytes(q) ==
    IF Len(q) = 0 THEN [out |-> "None", packet |-> None, rest |-> q]
    ELSE IF Len(q) = 1 THEN [out |-> "Panic", packet |-> None, rest |-> <<>>]
    ELSE IF Len(q) - 2 < q[2] THEN [out |-> "Panic", packet |-> None, rest |-> <<>>]
    ELSE LET len == q[2]
             d == DecodeBody(q[1], SubSeq(q, 3, 2 + len))
         IN  [out |-> d.out, packet |-> d.packet, rest |-> SubSeq(q, 3 + len, Len(q))]

----------------------------------------------------------------------------
(* Connection state: Client::new and Client::reconnect *)

\* "MQTT"
ProtocolName == <<77, 81, 84, 84>>

ProtocolLevel == 4

WillQosFlags(qos) ==
    CASE qos = "One" -> <<0, 1>>
      [] qos = "Two" -> <<1, 0>>
      [] OTHER -> <<0, 0>>

WillFlags(will) ==
    IF IsSome(will)
    THEN LET w == Unwrap(will)
             will_qos_flags == WillQosFlags(w.qos)
         IN  (IF w.retain THEN Pow2(5) ELSE 0)
             + (IF will_qos_flags[1] = 1 THEN Pow2(4) ELSE 0)
             + (IF will_qos_flags[2] = 1 THEN Pow2(3) ELSE 0)
             + Pow2(2)
    ELSE 0

\* The connect-flags byte Client::new computes from its arguments
NewFlags(will, clean_session, username, pass) ==
    ((IF IsSome(username) THEN Pow2(7) ELSE 0)
     + (IF IsSome(pass) /\ IsSome(username) THEN Pow2(6) ELSE 0)
     + (IF clean_session THEN 2 ELSE 0)
     + WillFlags(will)) % 256

\* The Connect variable header declares protocol_level and connect_flags as Byte
\* (header.rs) and encodes them with to_u8; the client hands it u8 values.
ConnectHeader(flags) ==
    [fixed |-> [kind |-> "Connect"],
     variable |-> Some([kind |-> "Connect",
                        protocol_name |-> EncodedStringNew(ProtocolName),
                        protocol_level |-> ByteNew(ProtocolLevel),
                        connect_flags |-> ByteNew(flags),
                        keep_alive |-> IntegerNew(0)])]

WillTopic(will) == IF IsSome(will) THEN Some(Unwrap(will).topic) ELSE None
WillMessage(will) == IF IsSome(will) THEN Some(Unwrap(will).message) ELSE None

\* The CONNECT packet Client::new builds from its arguments
NewPacket(client_id, will, clean_session, username, pass) ==
    [header |-> ConnectHeader(NewFlags(will, clean_session, username, pass)),
     payload |-> Some([kind |-> "Connect",
                       content |-> ConnectPayloadNew(client_id, WillTopic(will),
                                                     WillMessage(will), username, pass)])]

\* The Client value Client::new returns
ClientNew(client_id, will, clean_session, host, port, username, pass) ==
    [client_id |-> client_id,
     clean_session |-> clean_session,
     server_connection |->
        [username |-> IF IsSome(username) THEN Some(EncodedStringNew(Unwrap(username))) ELSE None,
         password |-> IF IsSome(pass) THEN Some(EncodedStringNew(Unwrap(pass))) ELSE None,
         host |-> host,
         port |-> port],
     will |-> will]

OptValue(o) == IF IsSome(o) THEN Some(Unwrap(o).value) ELSE None

\* Variant of ReconnectFlags that leaves out the password bit
ReconnectFlags_NoPasswordBit(c) ==
    ((IF IsSome(c.server_connection.username) THEN Pow2(7) ELSE 0)
     + (IF c.clean_session THEN 2 ELSE 0)
     + WillFlags(c.will)) % 256

\* The connect-flags byte Client::reconnect computes from the stored fields
ReconnectFlags(c) ==
    ((IF IsSome(c.server_connection.username) THEN Pow2(7) ELSE 0)
     + (IF IsSome(c.server_connection.password) /\ IsSome(c.server_connection.username)
        THEN Pow2(6) ELSE 0)
     + (IF c.clean_session THEN 2 ELSE 0)
     + WillFlags(c.will)) % 256

\* The CONNECT packet Client::reconnect builds from the stored fields
ReconnectPacket(c) ==
    [header |-> ConnectHeader(ReconnectFlags(c)),
     payload |-> Some([kind |-> "Connect",
                       content |-> ConnectPayloadNew(c.client_id, WillTopic(c.will),
                                                     WillMessage(c.will),
                                                     OptValue(c.server_connection.username),
                                                     OptValue(c.server_connection.password))])]

\* One write_all call: who called, on which transport, the bytes handed over,
\* whether it succeeded, and the intent flag at that moment
WriteAll(op, data, ok) ==
    [op |-> op, transport |-> tcp_stream, bytes |-> data, ok |-> ok,
     intent |-> intent_disconnect]

\* Client::reconnect: the transport handle is left as it is; the packet goes to it
ReconnectWrite(ok) == WriteAll("reconnect", ControlPacketToBytes(ReconnectPacket(client)), ok)

ReconnectResult(ok) == IF ok THEN Ok(<<>>) ELSE Err("ConnectionError", <<>>)

----------------------------------------------------------------------------
(* Inputs *)

Host == "broker"
Port == "1883"

\* "c1", "u", "p", "t", "m"
ClientIds == {<<99, 49>>}
Usernames == {None, Some(<<117>>)}
Passwords == {None, Some(<<112>>)}
Wills == {None} \cup {Some([topic |-> <<116>>, message |-> <<109>>, qos |-> q, retain |-> r]) :
                        q \in QOS, r \in BOOLEAN}

\* every argument list of Client::new
AllArgs ==
    [client_id : ClientIds, will : Wills, clean_session : BOOLEAN,
     username : Usernames, pass : Passwords]

\* the argument lists used where the dispatch loop is explored in full
LoopArgs ==
    {a \in AllArgs : /\ a.clean_session
                     /\ a.will \in {None, Some([topic |-> <<116>>, message |-> <<109>>,
                                                qos |-> "One", retain |-> TRUE])}
                     /\ IsSome(a.pass) = IsSome(a.username)
                     /\ IsSome(a.will) = IsSome(a.username)}

----------------------------------------------------------------------------
(* The state after Client::new has returned Ok *)

InitOf(args) ==
    \E a \in args :
        /\ client = ClientNew(a.client_id, a.will, a.clean_session, Host, Port, a.username, a.pass)
        /\ tcp_stream = 0
        /\ intent_disconnect = FALSE
        /\ closed = {}
        /\ writes = <<[op |-> "new", transport |-> 0,
                       bytes |-> ControlPacketToBytes(
                                    NewPacket(a.client_id, a.will, a.clean_session,
                                              a.username, a.pass)),
                       ok |-> TRUE, intent |-> FALSE]>>
        /\ result = Returned("new", a, Ok(<<>>))
        /\ dpc = "idle"
        /\ ops = 0
        /\ pc = "idle"
        /\ callbacks = {}
        /\ bytes = <<>>
        /\ reads = 0
        /\ log = <<>>
        /\ writers = [t \in Threads |-> IdleWriter]
        /\ stream = <<>>

Init == InitOf(LoopArgs)

----------------------------------------------------------------------------
(* Requests: Client::disconnect, subscribe, unsubscribe, publish *)

DisconnectPacket ==
    [header |-> [fixed |-> [kind |-> "Disconnect"], variable |-> None], payload |-> None]

\* disconnect(), up to the write: the packet is built and the flag is set
DisconnectBegin ==
    /\ dpc = "idle"
    /\ pc \in {"idle", "returned"}
    /\ ops < MaxOps
    /\ dpc' = "write"
    /\ ops' = ops + 1
    /\ intent_disconnect' = TRUE
    /\ UNCHANGED <<writers, stream, client, tcp_stream, closed, writes, result, pc, callbacks, bytes, reads, log>>

\* Variant of DisconnectFinish without the rollback of the flag
DisconnectFinish_NoRollback(ok) ==
    /\ dpc = "write"
    /\ writes' = Append(writes, WriteAll("disconnect", ControlPacketToBytes(DisconnectPacket), ok))
    /\ result' = Returned("disconnect", <<>>,
                           IF ok THEN Ok(<<>>) ELSE Err("RequestError", <<>>))
    /\ dpc' = "idle"
    /\ UNCHANGED <<writers, stream, client, tcp_stream, intent_disconnect, closed, ops, pc, callbacks, bytes,
                   reads, log>>

\* disconnect(), from the write to the return: the flag is rolled back on failure
DisconnectFinish(ok) ==
    /\ dpc = "write"
    /\ writes' = Append(writes, WriteAll("disconnect", ControlPacketToBytes(DisconnectPacket), ok))
    /\ intent_disconnect' = IF ok THEN intent_disconnect ELSE FALSE
    /\ result' = Returned("disconnect", <<>>,
                           IF ok THEN Ok(<<>>) ELSE Err("RequestError", <<>>))
    /\ dpc' = "idle"
    /\ UNCHANGED <<writers, stream, client, tcp_stream, closed, ops, pc, callbacks, bytes, reads, log>>

DisconnectWrite == \E ok \in BOOLEAN : DisconnectFinish(ok)

\* the clock samples Instant::now().elapsed().subsec_millis() is modelled to return
PidSamples == {0, 2}

SubscribePacket(topic, qos, pid) ==
    [header |-> [fixed |-> [kind |-> "Subscribe"],
                 variable |-> Some([kind |-> "Subscribe", packet_id |-> IntegerNew(pid)])],
     payload |-> Some([kind |-> "Subscribe",
                       content |-> <<[topic_filter |-> EncodedStringNew(topic), qos |-> qos]>>])]

\* Variant of SubscribeCall that writes the packet before it validates the filter
SubscribeCall_WritesFirst(topic, qos, pid, ok) ==
    LET packet == SubscribePacket(topic, qos, pid)
        tm == TopicMatcherNew(topic)
    IN  /\ dpc = "idle"
        /\ ops < MaxOps
        /\ ops' = ops + 1
        /\ writes' = Append(writes, WriteAll("subscribe", ControlPacketToBytes(packet), ok))
        /\ result' = Returned("subscribe", [topic |-> topic, qos |-> qos],
                               IF ~ok THEN Err("RequestError", <<>>)
                               ELSE IF tm.tag = "Err" THEN tm ELSE Ok(tm.val))
        /\ UNCHANGED <<writers, stream, client, tcp_stream, intent_disconnect, closed, dpc, pc, callbacks,
                       bytes, reads, log>>

SubscribeCall(topic, qos, pid, ok) ==
    LET packet == SubscribePacket(topic, qos, pid)
        tm == TopicMatcherNew(topic)
    IN  /\ dpc = "idle"
        /\ ops < MaxOps
        /\ ops' = ops + 1
        /\ IF tm.tag = "Err"
           THEN /\ result' = Returned("subscribe", [topic |-> topic, qos |-> qos], tm)
                /\ UNCHANGED writes
           ELSE /\ writes' = Append(writes, WriteAll("subscribe", ControlPacketToBytes(packet), ok))
                /\ result' = Returned("subscribe", [topic |-> topic, qos |-> qos],
                                       IF ok THEN Ok(tm.val) ELSE Err("RequestError", <<>>))
        /\ UNCHANGED <<writers, stream, client, tcp_stream, intent_disconnect, closed, dpc, pc, callbacks,
                       bytes, reads, log>>

UnsubscribePacket(topic, pid) ==
    [header |-> [fixed |-> [kind |-> "Unsubscribe"],
                 variable |-> Some([kind |-> "Unsubscribe", packet_id |-> IntegerNew(pid)])],
     payload |-> Some([kind |-> "Unsubscribe", content |-> <<EncodedStringNew(topic)>>])]

UnsubscribeCall(topic, pid, ok) ==
    /\ dpc = "idle"
    /\ ops < MaxOps
    /\ ops' = ops + 1
    /\ writes' = Append(writes, WriteAll("unsubscribe",
                                         ControlPacketToBytes(UnsubscribePacket(topic, pid)), ok))
    /\ result' = Returned("unsubscribe", [topic |-> topic],
                           IF ok THEN Ok(pid) ELSE Err("RequestError", <<>>))
    /\ UNCHANGED <<writers, stream, client, tcp_stream, intent_disconnect, closed, dpc, pc, callbacks,
                   bytes, reads, log>>

PublishPacket(topic, message_text, qos, retain, pid) ==
    [header |-> [fixed |-> [kind |-> "Publish", dup |-> FALSE, qos |-> qos, retain |-> retain],
                 variable |-> Some([kind |-> "Publish",
                                    topic_name |-> EncodedStringNew(topic),
                                    packet_id |-> IntegerNew(pid)])],
     payload |-> Some([kind |-> "Publish", content |-> message_text])]

PublishCall(topic, message_text, qos, retain, pid, ok) ==
    /\ dpc = "idle"
    /\ ops < MaxOps
    /\ ops' = ops + 1
    /\ writes' = Append(writes, WriteAll("publish",
                                         ControlPacketToBytes(
                                            PublishPacket(topic, message_text, qos, retain, pid)),
                                         ok))
    /\ result' = Returned("publish",
                           [topic |-> topic, message_text |-> message_text, qos |-> qos,
                            retain |-> retain],
                           IF ok THEN Ok(pid) ELSE Err("RequestError", <<>>))
    /\ UNCHANGED <<writers, stream, client, tcp_stream, intent_disconnect, closed, dpc, pc, callbacks,
                   bytes, reads, log>>

\* the filters handed to subscribe: every string over a, /, +, # up to MaxFilterLen
FilterAlphabet == {97, Slash, Plus, Hash}
Filters == SeqsUpTo(FilterAlphabet, MaxFilterLen)

Subscribe == \E topic \in Filters, qos \in QOS, pid \in PidSamples, ok \in BOOLEAN :
                SubscribeCall(topic, qos, pid, ok)

Unsubscribe == \E pid \in PidSamples, ok \in BOOLEAN : UnsubscribeCall(<<97>>, pid, ok)

Publish == \E qos \in QOS, retain \in BOOLEAN, pid \in PidSamples, ok \in BOOLEAN :
                PublishCall(<<116>>, <<109>>, qos, retain, pid, ok)

----------------------------------------------------------------------------
(* Dispatch loop: Client::do_loop *)

BufLen == 64

Callbacks == {"message", "connect", "publish", "subscribe", "unsubscribe", "disconnect"}

\* the Callbacks values do_loop is started with: nothing registered, everything
\* registered, one callback alone, and everything but one callback
RegSets == {{}, Callbacks} \cup {{c} : c \in Callbacks} \cup {Callbacks \ {c} : c \in Callbacks}

\* Variant of IdArm that takes a missing callback for a fatal error
IdArm_ExpectsCallback(cbs, resp, cb, pattern) ==
    IF cb \notin cbs THEN [out |-> "Panic", call |-> None]
    ELSE IF ~IsSome(resp.header.variable) THEN [out |-> "Panic", call |-> None]
    ELSE IF Unwrap(resp.header.variable).kind # pattern THEN [out |-> "skip", call |-> None]
    ELSE [out |-> "call",
          call |-> Some([cb |-> cb, arg |-> IntegerToU16(Unwrap(resp.header.variable).packet_id)])]

\* One arm of the match on resp.header.fixed with a packet-id callback: cb is the
\* callback the arm looks up, pattern the VariableHeader variant its let-else expects
IdArm(cbs, resp, cb, pattern) ==
    IF cb \notin cbs THEN [out |-> "skip", call |-> None]
    ELSE IF ~IsSome(resp.header.variable) THEN [out |-> "Panic", call |-> None]
    ELSE IF Unwrap(resp.header.variable).kind # pattern THEN [out |-> "skip", call |-> None]
    ELSE [out |-> "call",
          call |-> Some([cb |-> cb, arg |-> IntegerToU16(Unwrap(resp.header.variable).packet_id)])]

ConnackArm(cbs, resp) ==
    IF "connect" \notin cbs THEN [out |-> "skip", call |-> None]
    ELSE IF ~IsSome(resp.header.variable) THEN [out |-> "Panic", call |-> None]
    ELSE IF Unwrap(resp.header.variable).kind # "Conack" THEN [out |-> "skip", call |-> None]
    ELSE [out |-> "call",
          call |-> Some([cb |-> "connect",
                         arg |-> ByteToU8(Unwrap(resp.header.variable).connect_return_code)])]

PublishArm(cbs, resp) ==
    IF "message" \notin cbs THEN [out |-> "skip", call |-> None]
    ELSE [out |-> "call", call |-> Some([cb |-> "message", arg |-> resp])]

\* Variant of Dispatch that hands a SUBACK to the unsubscribe callback
Dispatch_SubackToUnsubscribe(cbs, resp) ==
    LET kind == resp.header.fixed.kind
    IN  CASE kind = "Unsuback" -> IdArm(cbs, resp, "unsubscribe", "Unsuback")
          [] kind = "Suback" -> IdArm(cbs, resp, "unsubscribe", "Suback")
          [] kind = "Pubcomp" -> IdArm(cbs, resp, "publish", "Pubcomp")
          [] kind = "Pubrel" -> IdArm(cbs, resp, "publish", "Pubrec")
          [] kind = "Pubrec" -> IdArm(cbs, resp, "publish", "Pubrec")
          [] kind = "Puback" -> IdArm(cbs, resp, "publish", "Puback")
          [] kind = "Connack" -> ConnackArm(cbs, resp)
          [] kind = "Publish" -> PublishArm(cbs, resp)
          [] OTHER -> [out |-> "none", call |-> None]

\* The match of do_loop on the decoded packet resp, cbs being the registered callbacks
Dispatch(cbs, resp) ==
    LET kind == resp.header.fixed.kind
    IN  CASE kind = "Unsuback" -> IdArm(cbs, resp, "unsubscribe", "Unsuback")
          [] kind = "Suback" -> IdArm(cbs, resp, "subscribe", "Suback")
          [] kind = "Pubcomp" -> IdArm(cbs, resp, "publish", "Pubcomp")
          [] kind = "Pubrel" -> IdArm(cbs, resp, "publish", "Pubrec")
          [] kind = "Pubrec" -> IdArm(cbs, resp, "publish", "Pubrec")
          [] kind = "Puback" -> IdArm(cbs, resp, "publish", "Puback")
          [] kind = "Connack" -> ConnackArm(cbs, resp)
          [] kind = "Publish" -> PublishArm(cbs, resp)
          [] OTHER -> [out |-> "none", call |-> None]

ReadEvent(out, n, call) ==
    [ev |-> "read", out |-> out, n |-> n, transport |-> tcp_stream,
     intent |-> intent_disconnect, type |-> -1, packet |-> None, call |-> call,
     data |-> <<>>]

DecodeEvent(out, type, packet, call) ==
    [ev |-> "decode", out |-> out, n |-> 0, transport |-> tcp_stream,
     intent |-> intent_disconnect, type |-> type, packet |-> packet, call |-> call,
     data |-> <<>>]

\* do_loop is entered with a Callbacks value; the byte queue starts empty
StartWith(cbs) ==
    /\ pc = "idle"
    /\ dpc = "idle"
    /\ pc' = "read"
    /\ callbacks' = cbs
    /\ bytes' = <<>>
    /\ UNCHANGED <<writers, stream, client, tcp_stream, intent_disconnect, closed, writes, result, dpc, ops,
                   reads, log>>

Start == \E cbs \in RegSets : StartWith(cbs)

\* Variant of ReadSome that returns from do_loop once a disconnect was intended
ReadSome_StopsOnIntent(chunk) ==
    /\ pc = "read"
    /\ reads < MaxReads
    /\ tcp_stream \notin closed
    /\ Len(chunk) > 0 /\ Len(chunk) < BufLen
    /\ bytes' = bytes \o chunk
    /\ pc' = IF intent_disconnect THEN "returned" ELSE "decode"
    /\ reads' = reads + 1
    /\ log' = Append(log, [ReadEvent("data", Len(chunk), None) EXCEPT !.data = chunk])
    /\ UNCHANGED <<writers, stream, client, tcp_stream, intent_disconnect, closed, writes, result, dpc, ops,
                   callbacks>>

\* read returns Ok(n) with 0 < n < buf.len(): the bytes are queued and the read loop is left
ReadSome(chunk) ==
    /\ pc = "read"
    /\ reads < MaxReads
    /\ tcp_stream \notin closed
    /\ Len(chunk) > 0 /\ Len(chunk) < BufLen
    /\ bytes' = bytes \o chunk
    /\ pc' = "decode"
    /\ reads' = reads + 1
    /\ log' = Append(log, [ReadEvent("data", Len(chunk), None) EXCEPT !.data = chunk])
    /\ UNCHANGED <<writers, stream, client, tcp_stream, intent_disconnect, closed, writes, result, dpc, ops,
                   callbacks>>

\* read fills the whole buffer: the bytes are queued and the next read follows
ReadWhole(chunk) ==
    /\ pc = "read"
    /\ reads < MaxReads
    /\ tcp_stream \notin closed
    /\ Len(chunk) = BufLen
    /\ bytes' = bytes \o chunk
    /\ pc' = "read"
    /\ reads' = reads + 1
    /\ log' = Append(log, [ReadEvent("full", Len(chunk), None) EXCEPT !.data = chunk])
    /\ UNCHANGED <<writers, stream, client, tcp_stream, intent_disconnect, closed, writes, result, dpc, ops,
                   callbacks>>

\* Variant of ReadZeroIntent that calls the callback and keeps looping
ReadZeroIntent_KeepsLooping ==
    /\ pc = "read"
    /\ reads < MaxReads
    /\ intent_disconnect
    /\ closed' = closed \cup {tcp_stream}
    /\ pc' = "read"
    /\ reads' = reads + 1
    /\ log' = Append(log, ReadEvent("eof", 0,
                                    IF "disconnect" \in callbacks
                                    THEN Some([cb |-> "disconnect", arg |-> 0])
                                    ELSE None))
    /\ UNCHANGED <<writers, stream, client, tcp_stream, intent_disconnect, writes, result, dpc, ops,
                   callbacks, bytes>>

\* read returns Ok(0) and the disconnect was intended: callback, then return
ReadZeroIntent ==
    /\ pc = "read"
    /\ reads < MaxReads
    /\ intent_disconnect
    /\ closed' = closed \cup {tcp_stream}
    /\ pc' = "returned"
    /\ reads' = reads + 1
    /\ log' = Append(log, ReadEvent("eof", 0,
                                    IF "disconnect" \in callbacks
                                    THEN Some([cb |-> "disconnect", arg |-> 0])
                                    ELSE None))
    /\ UNCHANGED <<writers, stream, client, tcp_stream, intent_disconnect, writes, result, dpc, ops,
                   callbacks, bytes>>

\* Variant of ReadZeroReconnectWith that returns when reconnect() fails
ReadZeroReconnectWith_GivesUp(ok) ==
    /\ pc = "read"
    /\ reads < MaxReads
    /\ ~intent_disconnect
    /\ closed' = closed \cup {tcp_stream}
    /\ writes' = Append(writes, ReconnectWrite(ok))
    /\ pc' = IF ok THEN "read" ELSE "returned"
    /\ reads' = reads + 1
    /\ log' = Append(log, ReadEvent("eof", 0, None))
    /\ UNCHANGED <<writers, stream, client, tcp_stream, intent_disconnect, result, dpc, ops, callbacks, bytes>>

\* read returns Ok(0) and no disconnect was intended: reconnect(), result dropped,
\* continue 'outer
ReadZeroReconnectWith(ok) ==
    /\ pc = "read"
    /\ reads < MaxReads
    /\ ~intent_disconnect
    /\ closed' = closed \cup {tcp_stream}
    /\ writes' = Append(writes, ReconnectWrite(ok))
    /\ pc' = "read"
    /\ reads' = reads + 1
    /\ log' = Append(log, ReadEvent("eof", 0, None))
    /\ UNCHANGED <<writers, stream, client, tcp_stream, intent_disconnect, result, dpc, ops, callbacks, bytes>>

ReadZeroReconnect == \E ok \in BOOLEAN : ReadZeroReconnectWith(ok)

\* read returns Err: the while-let loop ends and the decode attempt follows
ReadErr ==
    /\ pc = "read"
    /\ reads < MaxReads
    /\ pc' = "decode"
    /\ reads' = reads + 1
    /\ log' = Append(log, ReadEvent("error", -1, None))
    /\ UNCHANGED <<writers, stream, client, tcp_stream, intent_disconnect, closed, writes, result, dpc, ops,
                   callbacks, bytes>>

\* the bytes from_bytes has taken from the front of queue q when it leaves rest
Taken(q, rest) == SubSeq(q, 1, Len(q) - Len(rest))

\* Variant of DecodeStep that leaves the decoded packet in the queue
DecodeStep_KeepsPacket(cbs) ==
    LET r == FromBytes(bytes)
        type == IF Len(bytes) > 0 THEN bytes[1] ELSE -1
        d == IF r.out = "Some" THEN Dispatch(cbs, Unwrap(r.packet))
             ELSE [out |-> r.out, call |-> None]
    IN  /\ pc = "decode"
        /\ bytes' = IF r.out = "Some" THEN bytes ELSE r.rest
        /\ pc' = IF d.out = "Panic" THEN "aborted" ELSE "read"
        /\ log' = Append(log, [DecodeEvent(d.out, type, r.packet, d.call)
                                  EXCEPT !.data = Taken(bytes, r.rest)])
        /\ UNCHANGED <<writers, stream, client, tcp_stream, intent_disconnect, closed, writes,
                       result, dpc, ops, callbacks, reads>>

\* ControlPacket::from_bytes on the queue, then the match on the packet
DecodeStep(cbs) ==
    LET r == FromBytes(bytes)
        type == IF Len(bytes) > 0 THEN bytes[1] ELSE -1
        d == IF r.out = "Some" THEN Dispatch(cbs, Unwrap(r.packet))
             ELSE [out |-> r.out, call |-> None]
    IN  /\ pc = "decode"
        /\ bytes' = r.rest
        /\ pc' = IF d.out = "Panic" THEN "aborted" ELSE "read"
        /\ log' = Append(log, [DecodeEvent(d.out, type, r.packet, d.call)
                                  EXCEPT !.data = Taken(bytes, r.rest)])
        /\ UNCHANGED <<writers, stream, client, tcp_stream, intent_disconnect, closed, writes, result, dpc,
                       ops, callbacks, reads>>

Decode == DecodeStep(callbacks)

----------------------------------------------------------------------------
(* What the peer sends *)

Ack(type, id) == <<type, 2, id \div 256, id % 256>>

ConnackBytes(flags, code) == <<32, 2, flags, code>>

\* SUBACK for packet id 1 with one code byte
SubackBytes(code) == <<144, 3, 0, 1, code>>

PingrespBytes == <<208, 0>>

\* PUBLISH, QoS 0, topic "a", payload "m"
PublishBytes == <<48, 4, 0, 1, 97, 109>>

\* a packet of an unknown type that fills the read buffer exactly
WholeChunk == [i \in 1..BufLen |-> IF i = 2 THEN BufLen - 2 ELSE 0]

Chunks ==
    {ConnackBytes(0, 0), ConnackBytes(1, 5),
     Ack(64, 1), Ack(64, 2), Ack(80, 1), Ack(98, 1), Ack(112, 1), Ack(176, 1),
     SubackBytes(0), PingrespBytes, PublishBytes,
     <<64>>, <<64, 1, 0>>,
     ConnackBytes(0, 0) \o Ack(64, 1),
     WholeChunk}

Read == \E chunk \in Chunks : ReadSome(chunk)

ReadFull == \E chunk \in Chunks : ReadWhole(chunk)

----------------------------------------------------------------------------
(* Specifications *)

\* the dispatch loop, with disconnect() before or after it
Next ==
    \/ DisconnectBegin
    \/ DisconnectWrite
    \/ Start
    \/ Read
    \/ ReadFull
    \/ ReadZeroIntent
    \/ ReadZeroReconnect
    \/ ReadErr
    \/ Decode

Spec == Init /\ [][Next]_vars

\* the connection life cycle for every argument list of Client::new
InitConnect == InitOf(AllArgs)

StartAll == StartWith(Callbacks)

NextConnect ==
    \/ DisconnectBegin
    \/ DisconnectWrite
    \/ StartAll
    \/ ReadZeroIntent
    \/ ReadZeroReconnect

SpecConnect == InitConnect /\ [][NextConnect]_vars

\* the requests, issued one after the other on a client connected with a will
\* and credentials
InitRequests == InitOf({a \in LoopArgs : IsSome(a.will)})

NextRequests ==
    \/ Subscribe
    \/ Unsubscribe
    \/ Publish
    \/ DisconnectBegin
    \/ DisconnectWrite

SpecRequests == InitRequests /\ [][NextRequests]_vars

----------------------------------------------------------------------------
(* Specification of the topic matcher: a filter and a topic name are drawn, *)
(* TopicMatcher::new is applied to the filter and matches to both, on the   *)
(* matcher that new returned or on one built as a struct literal            *)

\* the argument list of Client::new behind the client that is left alone here
PureArgs == {a \in LoopArgs : ~IsSome(a.will)}

\* the state after Client::new, with the inputs of a function waiting to be applied
InitInputs(inputs) ==
    \E a \in PureArgs, x \in inputs :
        /\ client = ClientNew(a.client_id, a.will, a.clean_session, Host, Port, a.username, a.pass)
        /\ tcp_stream = 0
        /\ intent_disconnect = FALSE
        /\ closed = {}
        /\ writes = <<[op |-> "new", transport |-> 0,
                       bytes |-> ControlPacketToBytes(
                                    NewPacket(a.client_id, a.will, a.clean_session,
                                              a.username, a.pass)),
                       ok |-> TRUE, intent |-> FALSE]>>
        /\ result = Returned("input", x, None)
        /\ dpc = "idle"
        /\ ops = 0
        /\ pc = "idle"
        /\ callbacks = {}
        /\ bytes = <<>>
        /\ reads = 0
        /\ log = <<>>
        /\ writers = [t \in Threads |-> IdleWriter]
        /\ stream = <<>>

\* levels joined by '/'
RECURSIVE Join(_)
Join(levels) ==
    IF Len(levels) = 0 THEN <<>>
    ELSE IF Len(levels) = 1 THEN Head(levels)
    ELSE Head(levels) \o <<Slash>> \o Join(Tail(levels))

\* the words of the tests of the matcher
Str_some == <<115, 111, 109, 101>>
Str_another == <<97, 110, 111, 116, 104, 101, 114>>
Str_one == <<111, 110, 101>>
Str_two == <<116, 119, 111>>
Str_three == <<116, 104, 114, 101, 101>>
Str_twonother == <<116, 119, 111, 110, 111, 116, 104, 101, 114>>

Case(topic_filter, topic) == [topic_filter |-> topic_filter, topic |-> topic]

\* filter and topic name of matching_test to matching_test9
TestCases ==
    {Case(Join(<<Str_some, <<Hash>>, Str_another>>),
          Join(<<Str_some, Str_one, Str_another>>)),
     Case(Join(<<Str_some, <<Hash>>, Str_another>>),
          Join(<<Str_some, Str_one, Str_two, Str_another>>)),
     Case(Join(<<Str_some, <<Plus>>, Str_another>>),
          Join(<<Str_some, Str_one, Str_two, Str_another>>)),
     Case(Join(<<Str_some, <<Plus>>, Str_another>>),
          Join(<<Str_some, Str_one, Str_another>>)),
     Case(Join(<<Str_some, <<Hash>>>>),
          Join(<<Str_some, Str_one, Str_another>>)),
     Case(Join(<<Str_one, Str_some, <<Hash>>>>),
          Join(<<Str_one, Str_some>>)),
     Case(Join(<<Str_one, <<Plus>>, Str_some, <<Hash>>>>),
          Join(<<Str_one, Str_two, Str_some>>)),
     Case(Join(<<Str_one, <<Plus>>, Str_some, <<Hash>>>>),
          Join(<<Str_one, Str_two, Str_some, Str_another, Str_twonother>>)),
     Case(Join(<<Str_one, <<Plus>>, Str_some, <<Hash>>>>),
          Join(<<Str_one, Str_two, Str_three, Str_some, Str_another>>))}

\* topic names are made of letters and '/'
TopicAlphabet == {97, 98, Slash}
Topics == SeqsUpTo(TopicAlphabet, MaxTopicLen)
MatcherFilters == SeqsUpTo(FilterAlphabet, MaxMatcherFilterLen)

\* the filter of matching_test2 and matching_test3 with topic names that put
\* one or more levels where its '+' stands
PlusFilter == Join(<<Str_some, <<Plus>>, Str_another>>)
LevelWords == SeqsUpTo({97, 110}, MaxLevelLen)
BetweenTopics ==
    {Join(<<Str_some>> \o mid \o <<Str_another>>) :
        mid \in UNION {[1..k -> LevelWords] : k \in 1..(1 + MaxExtraLevels)}}

MatcherInputs ==
    {Case(f, t) : f \in MatcherFilters, t \in Topics}
    \cup TestCases
    \cup {Case(PlusFilter, t) : t \in BetweenTopics}

\* the message the tests hand to matches: a PUBLISH with the topic name, packet
\* id 0 and no payload
TestMessage(msg_topic) ==
    [header |-> [fixed |-> [kind |-> "Publish", dup |-> FALSE, qos |-> "Zero", retain |-> FALSE],
                 variable |-> Some([kind |-> "Publish",
                                    topic_name |-> EncodedStringNew(msg_topic),
                                    packet_id |-> IntegerNew(0)])],
     payload |-> None]

InitMatcher == InitInputs(MatcherInputs)

\* TopicMatcher::new on the drawn filter
MatcherNew ==
    /\ result.op = "input"
    /\ result' = Returned("TopicMatcher::new", result.args,
                           TopicMatcherNew(result.args.topic_filter))
    /\ UNCHANGED <<writers, stream, client, tcp_stream, intent_disconnect, closed, writes, dpc, ops,
                   pc, callbacks, bytes, reads, log>>

\* matches on the drawn topic name: self is the matcher that new has returned, or
\* a TopicMatcher { topic_filter } literal as in the tests
MatcherMatches ==
    /\ \/ result.op = "input"
       \/ result.op = "TopicMatcher::new" /\ result.ret.tag = "Ok"
    /\ LET validated == result.op = "TopicMatcher::new"
           self == IF validated THEN result.ret.val
                   ELSE [topic_filter |-> result.args.topic_filter]
       IN  result' = Returned("matches",
                               [self |-> self, topic |-> result.args.topic,
                                validated |-> validated],
                               Matches(self, TestMessage(result.args.topic)))
    /\ UNCHANGED <<writers, stream, client, tcp_stream, intent_disconnect, closed, writes, dpc, ops,
                   pc, callbacks, bytes, reads, log>>

NextMatcher ==
    \/ MatcherNew
    \/ MatcherMatches

SpecMatcher == InitMatcher /\ [][NextMatcher]_vars

----------------------------------------------------------------------------
(* Specification of a publish and its acknowledgement: one publish with any *)
(* packet id it can draw, then do_loop reading the PUBACK the broker sends   *)
(* for it, which carries the packet-id bytes of the PUBLISH                  *)

\* subsec_millis() is below 1000
MaxMillis == 999
PacketIds == 0..MaxMillis

InitPubAck == InitOf(PureArgs)

PublishAny ==
    \E qos \in QOS, pid \in PacketIds, ok \in BOOLEAN :
        /\ result.op = "new"
        /\ PublishCall(<<116>>, <<109>>, qos, FALSE, pid, ok)

\* the packet-id bytes of a written PUBLISH: they follow the two bytes of the
\* fixed header and the topic name with its two length bytes
SentPacketId(data, topic) == SubSeq(data, 5 + Len(topic), 6 + Len(topic))

ReadPuback ==
    \E i \in DOMAIN writes :
        /\ writes[i].op = "publish"
        /\ writes[i].ok
        /\ ReadSome(<<64, 2>> \o SentPacketId(writes[i].bytes, <<116>>))

NextPubAck ==
    \/ PublishAny
    \/ StartAll
    \/ ReadPuback
    \/ Decode

SpecPubAck == InitPubAck /\ [][NextPubAck]_vars

----------------------------------------------------------------------------
(* Specification of the codec round trip: a packet of one of the kinds that *)
(* from_bytes decodes is drawn, to_bytes is applied to it and from_bytes to  *)
(* the bytes that to_bytes returned                                          *)

\* packet ids and field bytes of the drawn packets
CodecIds == (0..32) \cup {255, 256, 257, 999, 65535}
CodecBytes == {0, 1, 2, 3, 4, 5, 128, 255}

\* the SUBACK payloads: up to two return codes
SubAckContents == SeqsUpTo({Ok("Zero"), Ok("One"), Ok("Two"),
                            Err("SubscriptionAckhowledgeFailureError", <<>>)}, 2)

InboundPackets ==
    {NoPayloadPacket("Connack", [kind |-> "Conack",
                                 connect_acknowledge_flags |-> ByteNew(f),
                                 connect_return_code |-> ByteNew(c)]) :
        f \in CodecBytes, c \in CodecBytes}
    \cup {NoPayloadPacket(k, [kind |-> k, packet_id |-> IntegerNew(id)]) :
            k \in {"Puback", "Pubrec", "Pubrel", "Pubcomp", "Unsuback"}, id \in CodecIds}
    \cup {[header |-> [fixed |-> [kind |-> "Suback"],
                       variable |-> Some([kind |-> "Suback", packet_id |-> IntegerNew(id)])],
           payload |-> Some([kind |-> "SubAcknowledge", content |-> c])] :
            id \in CodecIds, c \in SubAckContents}
    \cup {[header |-> [fixed |-> [kind |-> "Pingresp"], variable |-> None],
           payload |-> None]}

\* ControlPacket::from_bytes on a queue holding what to_bytes returns for packet
FromBytesOfToBytes(packet) ==
    LET encoded == ToBytes(packet)
    IN  IF encoded.out = "Panic" THEN [out |-> "Panic", packet |-> None, rest |-> <<>>]
        ELSE FromBytes(Unwrap(encoded.value))

InitCodec == InitInputs(InboundPackets)

RoundTrip ==
    /\ result.op = "input"
    /\ result' = Returned("round_trip", result.args, FromBytesOfToBytes(result.args))
    /\ UNCHANGED <<writers, stream, client, tcp_stream, intent_disconnect, closed, writes, dpc, ops,
                   pc, callbacks, bytes, reads, log>>

NextCodec == RoundTrip

SpecCodec == InitCodec /\ [][NextCodec]_vars

----------------------------------------------------------------------------
(* Specification of the encoder: a packet of one of the kinds that to_bytes *)
(* encodes is drawn and ControlPacket::to_bytes is applied to it             *)

\* a PUBLISH packet as publish builds it, with the dup flag of the fixed header
PublishWith(dup, qos, retain, pid) ==
    [PublishPacket(<<116>>, <<109>>, qos, retain, pid) EXCEPT !.header.fixed.dup = dup]

PingreqPacket ==
    [header |-> [fixed |-> [kind |-> "Pingreq"], variable |-> None], payload |-> None]

OutboundPackets ==
    {NewPacket(a.client_id, a.will, a.clean_session, a.username, a.pass) : a \in AllArgs}
    \cup {PublishWith(dup, qos, retain, pid) :
            dup \in BOOLEAN, qos \in QOS, retain \in BOOLEAN, pid \in PidSamples}
    \cup {SubscribePacket(topic, qos, pid) :
            topic \in {<<97>>, <<97, Slash, Hash>>}, qos \in QOS, pid \in PidSamples}
    \cup {UnsubscribePacket(<<97>>, pid) : pid \in PidSamples}
    \cup {PingreqPacket, DisconnectPacket}

InitEncode == InitInputs(OutboundPackets)

Encode ==
    /\ result.op = "input"
    /\ result' = Returned("to_bytes", result.args, ToBytes(result.args))
    /\ UNCHANGED <<writers, stream, client, tcp_stream, intent_disconnect, closed, writes, dpc, ops,
                   pc, callbacks, bytes, reads, log>>

NextEncode == Encode

SpecEncode == InitEncode /\ [][NextEncode]_vars

----------------------------------------------------------------------------
(* Specification of the number types: a value is drawn, and Byte::new with  *)
(* to_u8, Integer::new with to_bytes and to_u16, and the length prefix of   *)
(* EncodedString::new are applied to it                                      *)

\* the largest u16
MaxU16 == 65535

\* the lengths of the strings handed to EncodedString::new
StringLens == 0..300

InitNumbers == InitInputs(0..MaxU16)

ByteRoundTrip ==
    /\ result.op = "input"
    /\ result.args < Pow2(8)
    /\ result' = Returned("Byte", result.args, ByteToU8(ByteNew(result.args)))
    /\ UNCHANGED <<writers, stream, client, tcp_stream, intent_disconnect, closed, writes, dpc, ops,
                   pc, callbacks, bytes, reads, log>>

IntegerRoundTrip ==
    /\ result.op = "input"
    /\ result' = Returned("Integer", result.args,
                           [to_bytes |-> IntegerToBytes(IntegerNew(result.args)),
                            to_u16 |-> IntegerToU16(IntegerNew(result.args))])
    /\ UNCHANGED <<writers, stream, client, tcp_stream, intent_disconnect, closed, writes, dpc, ops,
                   pc, callbacks, bytes, reads, log>>

\* EncodedString::new on a string of result.args bytes, then the first two bytes
\* of to_bytes
StringLength ==
    /\ result.op = "input"
    /\ result.args \in StringLens
    /\ result' = Returned("EncodedString", result.args,
                           SubSeq(EncodedStringToBytes(
                                     EncodedStringNew([i \in 1..result.args |-> 97])), 1, 2))
    /\ UNCHANGED <<writers, stream, client, tcp_stream, intent_disconnect, closed, writes, dpc, ops,
                   pc, callbacks, bytes, reads, log>>

NextNumbers ==
    \/ ByteRoundTrip
    \/ IntegerRoundTrip
    \/ StringLength

SpecNumbers == InitNumbers /\ [][NextNumbers]_vars

----------------------------------------------------------------------------
(* Requests from several threads: publish, subscribe and unsubscribe take     *)
(* &self and Client is Sync, so threads holding a reference may be inside     *)
(* them at once; disconnect takes &mut self. write_all is a loop of write()   *)
(* calls, each of which accepts the whole buffer or a part of it.             *)

InitWriters == InitOf(PureArgs)

Busy(op, args, data, ret) ==
    [st |-> "busy", op |-> op, args |-> args, data |-> data, rest |-> data, parts |-> 0,
     ret |-> ret]

InDisconnect == \E u \in Threads : writers[u].st = "busy" /\ writers[u].op = "disconnect"

\* the threads are numbered in the order in which they call
IsNextCaller(t) ==
    /\ writers[t].st = "idle"
    /\ \A u \in Threads : u < t => writers[u].st # "idle"

\* Variant of CanBegin with a lock around the whole request
CanBegin_Locked(t) ==
    /\ IsNextCaller(t)
    /\ \A u \in Threads : writers[u].st # "busy"

\* thread t may enter a &self method: no &mut borrow of the client is alive
CanBegin(t) ==
    /\ IsNextCaller(t)
    /\ ~InDisconnect

\* the packet-id bytes of the request thread u has encoded
IdBytes(u) ==
    IF writers[u].op = "publish" THEN SentPacketId(writers[u].data, writers[u].args.topic)
    ELSE SubSeq(writers[u].data, 3, 4)

\* the ids of the requests that were encoded and have seen no acknowledgment
InFlight == {IdBytes(u) : u \in {v \in Threads : writers[v].op \in {"publish", "subscribe",
                                                                  "unsubscribe"}
                                                /\ writers[v].data # <<>>}}

\* Variant of PublishBegin that takes a sample only if no request in flight has it
PublishBegin_FreshId(t, topic, message_text, qos, retain, pid) ==
    /\ CanBegin(t)
    /\ IntegerToBytes(IntegerNew(pid)) \notin InFlight
    /\ writers' = [writers EXCEPT ![t] =
                      Busy("publish",
                           [topic |-> topic, message_text |-> message_text, qos |-> qos,
                            retain |-> retain],
                           ControlPacketToBytes(
                              PublishPacket(topic, message_text, qos, retain, pid)),
                           Ok(pid))]
    /\ UNCHANGED <<stream, client, tcp_stream, intent_disconnect, closed, writes, result, dpc,
                   ops, pc, callbacks, bytes, reads, log>>

\* publish() up to write_all: the id is sampled and the packet encoded
PublishBegin(t, topic, message_text, qos, retain, pid) ==
    /\ CanBegin(t)
    /\ writers' = [writers EXCEPT ![t] =
                      Busy("publish",
                           [topic |-> topic, message_text |-> message_text, qos |-> qos,
                            retain |-> retain],
                           ControlPacketToBytes(
                              PublishPacket(topic, message_text, qos, retain, pid)),
                           Ok(pid))]
    /\ UNCHANGED <<stream, client, tcp_stream, intent_disconnect, closed, writes, result, dpc,
                   ops, pc, callbacks, bytes, reads, log>>

\* subscribe() up to write_all; a filter TopicMatcher::new rejects returns at once
SubscribeBegin(t, topic, qos, pid) ==
    LET tm == TopicMatcherNew(topic)
        args == [topic |-> topic, qos |-> qos]
    IN  /\ CanBegin(t)
        /\ IF tm.tag = "Err"
           THEN /\ writers' = [writers EXCEPT ![t] =
                                  [IdleWriter EXCEPT !.st = "done", !.op = "subscribe",
                                                     !.args = args, !.ret = tm]]
                /\ result' = Returned("subscribe", args, tm)
           ELSE /\ writers' = [writers EXCEPT ![t] =
                                  Busy("subscribe", args,
                                       ControlPacketToBytes(SubscribePacket(topic, qos, pid)),
                                       Ok(tm.val))]
                /\ UNCHANGED result
        /\ UNCHANGED <<stream, client, tcp_stream, intent_disconnect, closed, writes, dpc,
                       ops, pc, callbacks, bytes, reads, log>>

\* unsubscribe() up to write_all
UnsubscribeBegin(t, topic, pid) ==
    /\ CanBegin(t)
    /\ writers' = [writers EXCEPT ![t] =
                      Busy("unsubscribe", [topic |-> topic],
                           ControlPacketToBytes(UnsubscribePacket(topic, pid)), Ok(pid))]
    /\ UNCHANGED <<stream, client, tcp_stream, intent_disconnect, closed, writes, result, dpc,
                   ops, pc, callbacks, bytes, reads, log>>

\* disconnect() up to write_all: &mut self, so no other thread is inside a request
ExclusiveDisconnectBegin(t) ==
    /\ CanBegin(t)
    /\ \A u \in Threads : writers[u].st # "busy"
    /\ intent_disconnect' = TRUE
    /\ writers' = [writers EXCEPT ![t] =
                      Busy("disconnect", <<>>, ControlPacketToBytes(DisconnectPacket),
                           Ok(<<>>))]
    /\ UNCHANGED <<stream, client, tcp_stream, closed, writes, result, dpc, ops, pc, callbacks,
                   bytes, reads, log>>

\* one write() of thread t's write_all accepts the first byte only
WritePart(t) ==
    /\ writers[t].st = "busy"
    /\ Len(writers[t].rest) > 1
    /\ writers[t].parts < MaxPartialWrites
    /\ stream' = Append(stream, Head(writers[t].rest))
    /\ writers' = [writers EXCEPT ![t].rest = Tail(@), ![t].parts = @ + 1]
    /\ UNCHANGED <<client, tcp_stream, intent_disconnect, closed, writes, result, dpc, ops, pc,
                   callbacks, bytes, reads, log>>

\* one write() accepts all that is left: write_all returns Ok and the request returns
WriteRest(t) ==
    /\ writers[t].st = "busy"
    /\ stream' = stream \o writers[t].rest
    /\ writes' = Append(writes, WriteAll(writers[t].op, writers[t].data, TRUE))
    /\ result' = Returned(writers[t].op, writers[t].args, writers[t].ret)
    /\ writers' = [writers EXCEPT ![t].st = "done", ![t].rest = <<>>]
    /\ UNCHANGED <<client, tcp_stream, intent_disconnect, closed, dpc, ops, pc, callbacks,
                   bytes, reads, log>>

\* one write() fails: write_all and the request return the error, and disconnect
\* takes its flag back
WriteFails(t) ==
    /\ writers[t].st = "busy"
    /\ writes' = Append(writes, WriteAll(writers[t].op, writers[t].data, FALSE))
    /\ result' = Returned(writers[t].op, writers[t].args, Err("RequestError", <<>>))
    /\ intent_disconnect' = IF writers[t].op = "disconnect" THEN FALSE ELSE intent_disconnect
    /\ writers' = [writers EXCEPT ![t].st = "done", ![t].ret = Err("RequestError", <<>>)]
    /\ UNCHANGED <<stream, client, tcp_stream, closed, dpc, ops, pc, callbacks, bytes, reads,
                   log>>

\* the requests of the threads, each with the clock sample 0
WriterPublish(t) == PublishBegin(t, <<116>>, <<109>>, "One", FALSE, 0)
WriterSubscribe(t) == \E topic \in {<<97>>, <<Hash, 97>>} : SubscribeBegin(t, topic, "One", 0)
WriterUnsubscribe(t) == UnsubscribeBegin(t, <<97>>, 0)

NextWriters ==
    \E t \in Threads :
        \/ WriterPublish(t)
        \/ WriterSubscribe(t)
        \/ WriterUnsubscribe(t)
        \/ ExclusiveDisconnectBegin(t)
        \/ WritePart(t)
        \/ WriteRest(t)
        \/ WriteFails(t)

SpecWriters == InitWriters /\ [][NextWriters]_vars

----------------------------------------------------------------------------
(* Requests in flight: the threads issue requests with every clock sample of  *)
(* PidSamples, every write() accepts its whole buffer or fails, and do_loop   *)
(* is not running, so no acknowledgment is read.                              *)

InitInFlight == InitOf(PureArgs)

ThreadPublish(t) == \E pid \in PidSamples : PublishBegin(t, <<116>>, <<109>>, "One", FALSE, pid)
ThreadSubscribe(t) == \E qos \in QOS, pid \in PidSamples : SubscribeBegin(t, <<97>>, qos, pid)
ThreadUnsubscribe(t) == \E pid \in PidSamples : UnsubscribeBegin(t, <<97>>, pid)

NextInFlight ==
    \E t \in Threads :
        \/ ThreadPublish(t)
        \/ ThreadSubscribe(t)
        \/ ThreadUnsubscribe(t)
        \/ WriteRest(t)
        \/ WriteFails(t)

SpecInFlight == InitInFlight /\ [][NextInFlight]_vars

----------------------------------------------------------------------------
(* Specification of the decoder: a queue that starts with a complete packet   *)
(* is handed to from_bytes, and the packet it yields to the match of do_loop  *)

\* type bytes: the eight that from_bytes recognises, and three it does not
KnownTypes == {32, 64, 80, 98, 112, 144, 176, 208}
TypeBytes == KnownTypes \cup {0, 48, 255}

\* bytes of the packet bodies
BodyBytes == {0, 1, 2, 255}

\* what follows the packet in the queue
Tails == {<<>>, <<64>>, <<208, 0>>}

\* type byte, length byte, as many body bytes as the length byte says, and a tail
CompletePackets ==
    {<<type, Len(body)>> \o body : type \in TypeBytes, body \in SeqsUpTo(BodyBytes, MaxBodyLen)}

Queues == {packet \o tail : packet \in CompletePackets, tail \in Tails}

InitDecode == InitInputs(Queues)

\* from_bytes on the queue
DecodeQueue ==
    /\ result.op = "input"
    /\ result' = Returned("from_bytes", result.args, FromBytes(result.args))
    /\ UNCHANGED <<writers, stream, client, tcp_stream, intent_disconnect, closed, writes, dpc,
                   ops, pc, callbacks, bytes, reads, log>>

\* the match of do_loop on the packet from_bytes returned, with everything registered,
\* nothing registered, or the subscribe callback alone
DispatchDecoded ==
    \E cbs \in {Callbacks, {}, {"subscribe"}} :
        /\ result.op = "from_bytes"
        /\ result.ret.out = "Some"
        /\ result' = Returned("dispatch",
                               [queue |-> result.args, packet |-> Unwrap(result.ret.packet),
                                callbacks |-> cbs],
                               Dispatch(cbs, Unwrap(result.ret.packet)))
        /\ UNCHANGED <<writers, stream, client, tcp_stream, intent_disconnect, closed, writes,
                       dpc, ops, pc, callbacks, bytes, reads, log>>

NextDecode == DecodeQueue \/ DispatchDecoded

SpecDecode == InitDecode /\ [][NextDecode]_vars

----------------------------------------------------------------------------
(* Views of the history used by the properties *)

IsCall(e) == IsSome(e.call)

\* a read that returned zero bytes, with or without the intent flag set
IsEof(e, intent) == e.ev = "read" /\ e.out = "eof" /\ e.intent = intent

\* a decode attempt that yielded a packet of the given fixed-header kind
Decoded(e, kinds) ==
    /\ e.ev = "decode"
    /\ IsSome(e.packet)
    /\ Unwrap(e.packet).header.fixed.kind \in kinds

\* a decode attempt on a queue starting with a type byte of the given set that
\* did not abort
Consumed(e, types) == e.ev = "decode" /\ e.type \in types /\ e.out # "Panic"

\* the callback the design routes each packet kind to
CallbackOf(kind) ==
    CASE kind = "Connack" -> "connect"
      [] kind = "Suback" -> "subscribe"
      [] kind = "Unsuback" -> "unsubscribe"
      [] kind \in {"Puback", "Pubrec", "Pubrel", "Pubcomp"} -> "publish"
      [] kind = "Publish" -> "message"
      [] OTHER -> "none"

WritesOf(op) == {i \in DOMAIN writes : writes[i].op = op}

\* after the event at position i, do_loop goes on with a transport read
GoesOnReading(i) ==
    IF i = Len(log) THEN pc = "read" ELSE log[i + 1].ev = "read"

----------------------------------------------------------------------------
(* C1: disconnect() has the intent flag set when it writes the DISCONNECT    *)
(* packet; when the write fails it returns RequestError with the flag false  *)
(* again, and when the write succeeds it returns Ok with the flag still true. *)
C1_DisconnectFlag ==
    /\ dpc = "write" => intent_disconnect
    /\ \A i \in WritesOf("disconnect") : writes[i].intent
    /\ (dpc = "idle" /\ Last(writes).op = "disconnect") =>
            /\ result.op = "disconnect"
            /\ IF Last(writes).ok
               THEN result.ret = Ok(<<>>) /\ intent_disconnect
               ELSE result.ret = Err("RequestError", <<>>) /\ ~intent_disconnect

\* disconnect() has returned RequestError after a failed write and the flag is down
C1_Witness ==
    /\ dpc = "idle"
    /\ Last(writes).op = "disconnect"
    /\ ~Last(writes).ok
    /\ Last(writes).intent
    /\ result.ret.tag = "Err"
    /\ ~intent_disconnect

(* C2: do_loop invokes the disconnect callback (when one is registered) with  *)
(* code 0 and returns exactly when a read returns zero bytes while the intent *)
(* flag is set: that read is the last thing do_loop does, no reconnect() is   *)
(* made for it, and the disconnect callback is invoked nowhere else.          *)
C2_CleanShutdown ==
    /\ \A i \in DOMAIN log :
          /\ IsEof(log[i], TRUE) =>
                /\ i = Len(log)
                /\ pc = "returned"
                /\ log[i].call = IF "disconnect" \in callbacks
                                 THEN Some([cb |-> "disconnect", arg |-> 0])
                                 ELSE None
          /\ (IsCall(log[i]) /\ Unwrap(log[i].call).cb = "disconnect") => IsEof(log[i], TRUE)
    /\ pc = "returned" => (Len(log) > 0 /\ IsEof(Last(log), TRUE))
    /\ Cardinality(WritesOf("reconnect")) =
            Cardinality({i \in DOMAIN log : IsEof(log[i], FALSE)})

\* do_loop has returned after dispatching other packets and then calling the
\* disconnect callback with 0
C2_Witness ==
    /\ pc = "returned"
    /\ Len(log) > 2
    /\ Last(log).call = Some([cb |-> "disconnect", arg |-> 0])
    /\ \E i \in DOMAIN log : IsCall(log[i]) /\ Unwrap(log[i].call).cb # "disconnect"

(* C3: every read that returns zero bytes while the intent flag is not set    *)
(* makes do_loop call reconnect() once, whatever reconnect() returns, invoke  *)
(* no callback and go on with the next read.                                  *)
C3_ReconnectAndContinue ==
    /\ \A i \in DOMAIN log :
          IsEof(log[i], FALSE) => (~IsCall(log[i]) /\ GoesOnReading(i))
    /\ Cardinality(WritesOf("reconnect")) =
            Cardinality({i \in DOMAIN log : IsEof(log[i], FALSE)})
    /\ \A i \in WritesOf("reconnect") : ~writes[i].intent

\* two zero-byte reads in a row, the first reconnect() failing, and the loop is
\* reading again
C3_Witness ==
    /\ pc = "read"
    /\ Len(log) >= 2
    /\ IsEof(log[Len(log) - 1], FALSE)
    /\ IsEof(log[Len(log)], FALSE)
    /\ Cardinality(WritesOf("reconnect")) = 2
    /\ \E i \in WritesOf("reconnect") : ~writes[i].ok /\ i < Len(writes)

(* C4: reconnect() writes its CONNECT packet on a newly opened transport, so  *)
(* the read that follows an unexpected peer close is on another transport     *)
(* than the closed one.                                                       *)
C4_ReconnectOpensTransport ==
    /\ \A i \in WritesOf("reconnect") : writes[i].transport \notin closed
    /\ \A i \in DOMAIN log :
          (IsEof(log[i], FALSE) /\ i < Len(log) /\ log[i + 1].ev = "read") =>
                log[i + 1].transport # log[i].transport

(* C5: for every argument list of Client::new, each CONNECT packet that       *)
(* reconnect() writes equals, byte for byte, the one Client::new wrote.       *)
C5_ReconnectSameConnect ==
    \A i \in WritesOf("reconnect") :
        /\ writes[1].op = "new"
        /\ writes[i].bytes = writes[1].bytes

\* reconnect() has run on a client created with a will, a username and a password
C5_Witness ==
    /\ WritesOf("reconnect") # {}
    /\ IsSome(client.will)
    /\ IsSome(client.server_connection.username)
    /\ IsSome(client.server_connection.password)
    /\ Len(writes[1].bytes) > 20

\* type bytes of PUBLISH: 0x30 with any flags
PublishTypes == 48..63

(* C6: a complete inbound PUBLISH packet makes do_loop invoke the registered  *)
(* message callback once, with the decoded packet.                            *)
C6_PublishDispatched ==
    \A i \in DOMAIN log :
        (Consumed(log[i], PublishTypes) /\ "message" \in callbacks) =>
            /\ IsCall(log[i])
            /\ Unwrap(log[i].call).cb = "message"
            /\ Unwrap(log[i].call).arg = Unwrap(log[i].packet)

AckKinds == {"Connack", "Suback", "Unsuback", "Puback", "Pubrec", "Pubcomp"}

(* C7: a decoded CONNACK, SUBACK, UNSUBACK, PUBACK, PUBREC or PUBCOMP makes    *)
(* do_loop invoke its callback (connect, subscribe, unsubscribe, publish) once *)
(* when that callback is registered, and no other callback.                    *)
C7_OneCallbackPerAck ==
    \A i \in DOMAIN log :
        Decoded(log[i], AckKinds) =>
            LET cb == CallbackOf(Unwrap(log[i].packet).header.fixed.kind)
            IN  IF cb \in callbacks
                THEN IsCall(log[i]) /\ Unwrap(log[i].call).cb = cb
                ELSE ~IsCall(log[i])

\* with everything registered, a SUBACK went to the subscribe callback and a
\* PUBCOMP to the publish callback
C7_Witness ==
    \E i, j \in DOMAIN log :
        /\ callbacks = Callbacks
        /\ Decoded(log[i], {"Suback"})
        /\ IsCall(log[i])
        /\ Unwrap(log[i].call).cb = "subscribe"
        /\ Decoded(log[j], {"Pubcomp"})
        /\ IsCall(log[j])
        /\ Unwrap(log[j].call).cb = "publish"

(* C8: a decoded PUBREL packet (type byte 98) makes do_loop invoke the         *)
(* registered publish callback once, with the packet id of that packet.       *)
C8_PubrelDispatched ==
    \A i \in DOMAIN log :
        (Decoded(log[i], {"Pubrel"}) /\ "publish" \in callbacks) =>
            /\ IsCall(log[i])
            /\ Unwrap(log[i].call).cb = "publish"

\* the packet kinds that have a callback of their own
RoutedKinds == AckKinds \cup {"Pubrel", "Publish"}

(* C9: a decoded packet whose callback is not registered makes do_loop invoke *)
(* no callback, neither abort nor return, and go on with the next read.       *)
C9_UnregisteredIgnored ==
    \A i \in DOMAIN log :
        (/\ Decoded(log[i], RoutedKinds)
         /\ CallbackOf(Unwrap(log[i].packet).header.fixed.kind) \notin callbacks) =>
            /\ ~IsCall(log[i])
            /\ log[i].out = "skip"
            /\ GoesOnReading(i)

\* a packet without a registered callback was passed over and a later packet
\* reached its callback
C9_Witness ==
    \E i, j \in DOMAIN log :
        /\ i < j
        /\ Decoded(log[i], RoutedKinds)
        /\ CallbackOf(Unwrap(log[i].packet).header.fixed.kind) \notin callbacks
        /\ ~IsCall(log[i])
        /\ log[j].ev = "decode"
        /\ IsCall(log[j])

QosCode(qos) == CASE qos = "Zero" -> 0 [] qos = "One" -> 1 [] qos = "Two" -> 2

\* the bytes hold a SUBSCRIBE packet with the one pair (topic, qos): type byte,
\* length byte, two id bytes, two length bytes, the filter, the QoS byte
HoldsOnePair(data, topic, qos) ==
    /\ Len(data) = 6 + Len(topic) + 1
    /\ data[1] = 130
    /\ SubSeq(data, 7, 6 + Len(topic)) = topic
    /\ data[Len(data)] = QosCode(qos)

(* C10: subscribe(filter, qos) with a filter TopicMatcher::new rejects returns *)
(* InvalidTopicMatcherError with the filter text and writes nothing; with an   *)
(* accepted filter it writes one SUBSCRIBE packet holding exactly the pair     *)
(* (filter, qos) and, the write succeeding, returns the matcher of that filter *)
(* (RequestError when the write fails).                                        *)
C10_SubscribeValidatesFirst ==
    [][(ops' = ops + 1 /\ dpc' = dpc /\ result'.op = "subscribe") =>
          LET topic == result'.args.topic
              qos == result'.args.qos
          IN  IF TopicMatcherNew(topic).tag = "Err"
              THEN /\ result'.ret = Err("InvalidTopicMatcherError", topic)
                   /\ writes' = writes
              ELSE /\ Len(writes') = Len(writes) + 1
                   /\ SubSeq(writes', 1, Len(writes)) = writes
                   /\ Last(writes').op = "subscribe"
                   /\ HoldsOnePair(Last(writes').bytes, topic, qos)
                   /\ result'.ret = IF Last(writes').ok
                                    THEN Ok([topic_filter |-> topic])
                                    ELSE Err("RequestError", <<>>)]_vars

\* subscribe has rejected the filter "a#" and nothing but the first CONNECT was written
C10_Witness ==
    /\ result.op = "subscribe"
    /\ result.args.topic = <<97, Hash>>
    /\ result.ret = Err("InvalidTopicMatcherError", <<97, Hash>>)
    /\ Len(writes) = 1

----------------------------------------------------------------------------
(* Views of filters and topic names by their levels *)

WildcardFree(level) == ~Contains(level, Plus) /\ ~Contains(level, Hash)

\* '#' is in no level but the last one
HashOnlyLast(f) ==
    LET levels == Split(f)
    IN  \A i \in 1..(Len(levels) - 1) : ~Contains(levels[i], Hash)

\* some level holds a wildcard together with another character
HasMixedLevel(f) ==
    LET levels == Split(f)
    IN  \E i \in 1..Len(levels) : ~WildcardFree(levels[i]) /\ Len(levels[i]) > 1

\* every level is wildcard-free or "+", but for a last level that may be "#"
WellFormed(f) ==
    LET levels == Split(f)
    IN  \A i \in 1..Len(levels) :
            \/ WildcardFree(levels[i])
            \/ levels[i] = <<Plus>>
            \/ i = Len(levels) /\ levels[i] = <<Hash>>

\* the comparison of filter levels f and topic levels t one by one: '+' stands
\* for one level, a final '#' for all that remain, any other level for itself
RECURSIVE LevelMatch(_, _)
LevelMatch(f, t) ==
    IF Len(f) = 1 /\ Head(f) = <<Hash>> THEN TRUE
    ELSE IF Len(f) = 0 \/ Len(t) = 0 THEN Len(f) = 0 /\ Len(t) = 0
    ELSE (Head(f) = <<Plus>> \/ Head(f) = Head(t)) /\ LevelMatch(Tail(f), Tail(t))

\* TopicMatcher::new has been applied
NewDone == result.op = "TopicMatcher::new"

\* matches has been applied to a matcher that TopicMatcher::new returned
MatchDone == result.op = "matches" /\ result.args.validated

----------------------------------------------------------------------------
(* C11: a filter with '#' in a level that is not its last one is rejected by *)
(* TopicMatcher::new with InvalidTopicMatcherError, also when it ends in     *)
(* '#': every accepted filter has '#' only as its final level                *)

C11_HashOnlyFinal ==
    NewDone =>
        (~HashOnlyLast(result.args.topic_filter)
            => result.ret = Err("InvalidTopicMatcherError", result.args.topic_filter))

----------------------------------------------------------------------------
(* C12: TopicMatcher::new rejects with InvalidTopicMatcherError every filter *)
(* that has a level holding '+' or '#' together with another character, and  *)
(* accepts every filter whose levels are wildcard-free or "+", with or       *)
(* without one final level "#"                                               *)

C12_NewRejectsAndAccepts ==
    NewDone =>
        /\ HasMixedLevel(result.args.topic_filter)
            => result.ret = Err("InvalidTopicMatcherError", result.args.topic_filter)
        /\ WellFormed(result.args.topic_filter)
            => result.ret = Ok([topic_filter |-> result.args.topic_filter])

\* "a#" ends in '#' and is rejected for its mixed level
C12_Witness ==
    /\ NewDone
    /\ result.args.topic_filter = <<97, Hash>>
    /\ result.ret.tag = "Err"

----------------------------------------------------------------------------
(* C13: for every accepted filter and every topic name, matches returns the  *)
(* boolean that the level-by-level comparison of filter and topic gives      *)

C13_MatchesIsLevelMatch ==
    MatchDone =>
        result.ret = Returns(LevelMatch(Split(result.args.self.topic_filter),
                                        Split(result.args.topic)))

----------------------------------------------------------------------------
(* C14: for an accepted filter without '#', matches returns, it returns      *)
(* false when the topic has fewer or more levels than the filter, and it     *)
(* returns true only when filter and topic have the same number of levels    *)

C14_LevelCountsMustAgree ==
    (MatchDone /\ ~Contains(result.args.self.topic_filter, Hash)) =>
        LET fl == Split(result.args.self.topic_filter)
            tl == Split(result.args.topic)
        IN  /\ result.ret.out = "Return"
            /\ Len(tl) # Len(fl) => result.ret = Returns(FALSE)
            /\ result.ret = Returns(TRUE) => Len(tl) = Len(fl)

----------------------------------------------------------------------------
(* C15: for an accepted filter P/#, matches returns true on every topic      *)
(* whose leading levels match P level by level, whatever levels follow them, *)
(* empty ones and none at all included                                       *)

C15_HashMatchesTheRest ==
    MatchDone =>
        LET fl == Split(result.args.self.topic_filter)
            tl == Split(result.args.topic)
        IN  ( /\ Len(fl) >= 2
              /\ Last(fl) = <<Hash>>
              /\ Len(tl) >= Len(fl) - 1
              /\ \A i \in 1..(Len(fl) - 1) : fl[i] = <<Plus>> \/ fl[i] = tl[i] )
            => result.ret = Returns(TRUE)

----------------------------------------------------------------------------
(* C16: a '+' level of an accepted filter stands for exactly one level of    *)
(* the topic name and never for a part with a '/' in it: matches returns     *)
(* true on a filter with '+' only if the levels match one by one;            *)
(* "some/+/another" matches "some/X/another" for every level X and no topic  *)
(* with two or more levels between "some" and "another"; "one/+/some/#" does *)
(* not match "one/two/three/some/another". Topic names hold no '+' and '#'.  *)

----------------------------------------------------------------------------
(* C17: when publish has returned the id p and the PUBACK with the packet-id *)
(* bytes of that PUBLISH is dispatched, the publish callback is called with  *)
(* p, for every id publish can draw                                          *)

C17_PubackGivesPublishedId ==
    (result.op = "publish" /\ result.ret.tag = "Ok") =>
        \A i \in DOMAIN log :
            Decoded(log[i], {"Puback"})
                => log[i].call = Some([cb |-> "publish", arg |-> result.ret.val])

----------------------------------------------------------------------------
(* C18: for a CONNACK, PUBACK, PUBREC, PUBREL, PUBCOMP, SUBACK, UNSUBACK or  *)
(* PINGRESP packet with any field values, from_bytes applied to the bytes    *)
(* that to_bytes produces returns a packet equal to the original             *)

C18_RoundTrip ==
    result.op = "round_trip" =>
        /\ result.ret.out = "Some"
        /\ result.ret.packet = Some(result.args)

----------------------------------------------------------------------------
(* C19: in every packet written whose variable header and payload are at     *)
(* most 255 bytes long, the second byte is the number of bytes after it      *)

C19_SecondByteIsRemainingLength ==
    \A i \in DOMAIN writes :
        Len(writes[i].bytes) - 2 <= 255
            => writes[i].bytes[2] = Len(writes[i].bytes) - 2

----------------------------------------------------------------------------
(* C20: the packet that disconnect() writes is the fixed header alone: first *)
(* byte 0xE0, remaining-length byte 0, nothing after them                    *)

C20_DisconnectBytes ==
    \A i \in WritesOf("disconnect") : writes[i].bytes = <<224, 0>>

----------------------------------------------------------------------------
(* C21: the first byte of an encoded packet is 0x10 for CONNECT, 0x82 for    *)
(* SUBSCRIBE, 0xA2 for UNSUBSCRIBE, 0xC0 for PINGREQ and, for PUBLISH with   *)
(* any dup, qos and retain, 0x30 + 8*dup + 2*qos + retain                    *)

C21_FirstByte ==
    (result.op = "to_bytes" /\ result.ret.out = "Return") =>
        LET fixed == result.args.header.fixed
            first == Unwrap(result.ret.value)[1]
        IN  /\ fixed.kind = "Connect" => first = 16
            /\ fixed.kind = "Subscribe" => first = 130
            /\ fixed.kind = "Unsubscribe" => first = 162
            /\ fixed.kind = "Pingreq" => first = 192
            /\ fixed.kind = "Publish" =>
                    first = 48 + (IF fixed.dup THEN 8 ELSE 0) + 2 * QosCode(fixed.qos)
                               + (IF fixed.retain THEN 1 ELSE 0)

\* a PUBLISH with dup, QoS 2 and retain has been encoded with first byte 0x3D
C21_Witness ==
    /\ result.op = "to_bytes"
    /\ result.args.header.fixed = [kind |-> "Publish", dup |-> TRUE, qos |-> "Two", retain |-> TRUE]
    /\ result.ret.out = "Return"
    /\ Unwrap(result.ret.value)[1] = 61

----------------------------------------------------------------------------
(* C22: the connect-flags byte that Client::new writes has bit 7 set iff a   *)
(* username is given, bit 6 iff username and password are given, bit 5 iff   *)
(* a will with retain is given, bits 4-3 equal to the will QoS, bit 2 iff a  *)
(* will is given, bit 1 iff clean-session and bit 0 clear; it is 0x02 for    *)
(* clean-session alone and 0x82 with a username added                        *)

\* the connect-flags byte as the claim lays it out, for the fields of client c
FlagsByLayout(c) ==
    (IF IsSome(c.server_connection.username) THEN 128 ELSE 0)
    + (IF IsSome(c.server_connection.username) /\ IsSome(c.server_connection.password)
       THEN 64 ELSE 0)
    + (IF IsSome(c.will) /\ Unwrap(c.will).retain THEN 32 ELSE 0)
    + (IF IsSome(c.will) THEN 8 * QosCode(Unwrap(c.will).qos) ELSE 0)
    + (IF IsSome(c.will) THEN 4 ELSE 0)
    + (IF c.clean_session THEN 2 ELSE 0)

\* the connect-flags byte of a written CONNECT: it follows the fixed header, the
\* protocol name with its two length bytes and the protocol level
SentConnectFlags(data) == data[4 + Len(ProtocolName) + 2]

----------------------------------------------------------------------------
(* C23: when a transport read fails with an error, do_loop returns: nothing  *)
(* is decoded and nothing is read after the failed read                      *)

C23_ReadErrorReturns ==
    \A i \in DOMAIN log :
        (log[i].ev = "read" /\ log[i].out = "error")
            => (i = Len(log) /\ pc = "returned")

----------------------------------------------------------------------------
(* C24: a decode attempt on a queue that holds only part of a packet (a type *)
(* byte without its length byte, or fewer body bytes than the length byte    *)
(* announces) yields no packet and leaves the queue as it is, and do_loop    *)
(* goes on with a read                                                       *)

\* the queue holds the beginning of a packet and not all of it
PartOfPacket(q) == Len(q) = 1 \/ (Len(q) >= 2 /\ Len(q) - 2 < q[2])

C24_PartialPacketWaits ==
    [][(pc = "decode" /\ PartOfPacket(bytes))
        => /\ pc' = "read"
           /\ bytes' = bytes
           /\ Last(log').ev = "decode"
           /\ Last(log').out = "None"]_vars

----------------------------------------------------------------------------
(* C25: for a matcher built as a struct literal from a filter with a level   *)
(* '#' that is not its last one, matches returns true on every topic that    *)
(* agrees with the filter character by character up to that '#' and has a    *)
(* different character in its place, whatever follows '#' in the filter;     *)
(* "some/#/another" matches "some/one/another" and "some/one/two/another"    *)

\* position k of filter f, counted from 0, holds a level '#' that is not the last
InnerHashAt(f, k) ==
    /\ Has(f, k) /\ At(f, k) = Hash
    /\ k = 0 \/ At(f, k - 1) = Slash
    /\ Has(f, k + 1) /\ At(f, k + 1) = Slash

C25_RawHashMatches ==
    (result.op = "matches" /\ ~result.args.validated) =>
        LET f == result.args.self.topic_filter
            t == result.args.topic
        IN  /\ \A k \in 0..(Len(f) - 1) :
                    ( /\ InnerHashAt(f, k)
                      /\ \A j \in 0..(k - 1) : Has(t, j) /\ At(t, j) = At(f, j)
                      /\ Has(t, k) /\ At(t, k) # Hash )
                    => result.ret = Returns(TRUE)
            /\ ( /\ f = Join(<<Str_some, <<Hash>>, Str_another>>)
                 /\ t \in {Join(<<Str_some, Str_one, Str_another>>),
                           Join(<<Str_some, Str_one, Str_two, Str_another>>)} )
                => result.ret = Returns(TRUE)

\* the literal matcher "some/#/another" has matched "some/one/two/another"
C25_Witness ==
    /\ result.op = "matches"
    /\ ~result.args.validated
    /\ result.args.self.topic_filter = Join(<<Str_some, <<Hash>>, Str_another>>)
    /\ result.args.topic = Join(<<Str_some, Str_one, Str_two, Str_another>>)
    /\ result.ret = Returns(TRUE)

----------------------------------------------------------------------------
(* C26: the payload of the CONNECT that Client::new writes holds client-id,  *)
(* will-topic, will-message, username and password in this order, each of    *)
(* the optional fields being there iff its connect-flags bit (will flag,     *)
(* username present, password present) is set; a password given without a   *)
(* username is neither flagged nor in the payload                            *)

\* bit n of the value v
Bit(v, n) == (v \div Pow2(n)) % 2 = 1

\* the connect flags that Client::new computes for the fields of client c
FlagsOf(c) ==
    NewFlags(c.will, c.clean_session, c.server_connection.username,
             c.server_connection.password)

\* a string field of the payload: two length bytes, then the bytes
Field(s) == EncodedStringToBytes(EncodedStringNew(s))

\* the payload of the CONNECT for client c with the fields its flags announce
PayloadByFlags(c) ==
    Field(c.client_id)
    \o (IF Bit(FlagsOf(c), 2)
        THEN Field(Unwrap(c.will).topic) \o Field(Unwrap(c.will).message) ELSE <<>>)
    \o (IF Bit(FlagsOf(c), 7)
        THEN EncodedStringToBytes(Unwrap(c.server_connection.username)) ELSE <<>>)
    \o (IF Bit(FlagsOf(c), 6)
        THEN EncodedStringToBytes(Unwrap(c.server_connection.password)) ELSE <<>>)

\* the payload of a written CONNECT: what follows the fixed header, the protocol
\* name with its length bytes, the level, the flags and the keep-alive
SentConnectPayload(data) == SubSeq(data, 2 + (2 + Len(ProtocolName)) + 4 + 1, Len(data))

C26_ConnectPayloadFollowsFlags ==
    \A i \in WritesOf("new") : SentConnectPayload(writes[i].bytes) = PayloadByFlags(client)

----------------------------------------------------------------------------
(* C27: for every 16-bit value v, Integer::new(v).to_bytes() is the two      *)
(* bytes v div 256 and v mod 256 and Integer::new(v).to_u16() is v; for      *)
(* every byte b, Byte::new(b).to_u8() is b; the length prefix of an          *)
(* EncodedString of n bytes is n div 256, n mod 256                          *)

C27_NumbersRoundTrip ==
    /\ result.op = "Byte" => result.ret = result.args
    /\ result.op = "Integer" =>
            /\ result.ret.to_bytes = <<result.args \div 256, result.args % 256>>
            /\ result.ret.to_u16 = result.args
    /\ result.op = "EncodedString" =>
            result.ret = <<result.args \div 256, result.args % 256>>

(* C28: a successful disconnect() does not stop do_loop: while the intent     *)
(* flag is set, bytes that are read are still handed to the decoder, every    *)
(* packet decoded is dispatched to the callback its kind selects, and do_loop *)
(* returns only at a read of zero bytes.                                      *)
C28_DisconnectDoesNotStopLoop ==
    /\ \A i \in DOMAIN log :
          log[i].intent =>
            /\ \E w \in DOMAIN writes : writes[w].op = "disconnect" /\ writes[w].ok
            /\ (log[i].ev = "read" /\ log[i].out = "data") =>
                  IF i = Len(log) THEN pc = "decode" ELSE log[i + 1].ev = "decode"
            /\ (log[i].ev = "decode" /\ IsSome(log[i].packet)) =>
                  /\ log[i].call = Dispatch(callbacks, Unwrap(log[i].packet)).call
                  /\ log[i].out = Dispatch(callbacks, Unwrap(log[i].packet)).out
            /\ (log[i].ev = "read" /\ log[i].out # "eof") => (i < Len(log) \/ pc # "returned")
    /\ (pc = "returned" /\ intent_disconnect) => IsEof(Last(log), TRUE)

\* after a successful disconnect() a packet was read, decoded and given to its
\* callback, and do_loop returned at the zero-byte read that followed
C28_Witness ==
    /\ pc = "returned"
    /\ \E w \in DOMAIN writes : writes[w].op = "disconnect" /\ writes[w].ok
    /\ \E i \in DOMAIN log :
          /\ i > 1
          /\ log[i].intent
          /\ log[i - 1].ev = "read" /\ log[i - 1].out = "data" /\ log[i - 1].intent
          /\ IsCall(log[i])
          /\ Unwrap(log[i].call).cb # "disconnect"
    /\ IsEof(Last(log), TRUE)

\* thread u is inside the write_all of publish, subscribe or unsubscribe
InSharedWrite(u) ==
    writers[u].st = "busy" /\ writers[u].op \in {"publish", "subscribe", "unsubscribe"}

C30_PacketIdMayRepeat ==
    /\ \A u \in Threads :
          (writers[u].op \in {"publish", "unsubscribe"} /\ writers[u].data # <<>>) =>
              \E pid \in PidSamples :
                  /\ writers[u].st = "done" => writers[u].ret \in {Ok(pid), Err("RequestError", <<>>)}
                  /\ writers[u].st = "busy" => writers[u].ret = Ok(pid)
                  /\ IdBytes(u) = IntegerToBytes(IntegerNew(pid))
    /\ \A t \in Threads :
          (IsNextCaller(t) /\ ~InDisconnect) =>
              \A pid \in PidSamples :
                  /\ ENABLED PublishBegin(t, <<116>>, <<109>>, "One", FALSE, pid)
                  /\ ENABLED SubscribeBegin(t, <<97>>, "One", pid)
                  /\ ENABLED UnsubscribeBegin(t, <<97>>, pid)

\* two requests were written with the same packet id and no acknowledgment has
\* been read
C30_Witness ==
    \E t, u \in Threads :
        /\ t # u
        /\ writers[t].st = "done" /\ writers[t].ret.tag = "Ok" /\ writers[t].op = "publish"
        /\ writers[u].st = "done" /\ writers[u].ret.tag = "Ok"
        /\ writers[u].op \in {"publish", "subscribe", "unsubscribe"}
        /\ writers[u].data # <<>>
        /\ IdBytes(t) = IdBytes(u)
        /\ log = <<>>

\* the complete packet at the head of queue q: its type byte, its length byte and
\* its body
HeadPacket(q) == SubSeq(q, 1, 2 + q[2])
AfterHead(q) == SubSeq(q, 3 + q[2], Len(q))

(* C31: from_bytes on a queue that starts with a complete packet takes the   *)
(* type byte, the length byte L and L body bytes from the queue and leaves   *)
(* what follows as it was, whatever the type byte; for a type byte other     *)
(* than 32, 64, 80, 98, 112, 144, 176, 208 it returns no packet.             *)
C31_ConsumesWholePacket ==
    result.op = "from_bytes" =>
        /\ result.ret.rest = AfterHead(result.args)
        /\ HeadPacket(result.args) \o result.ret.rest = result.args
        /\ result.args[1] \notin KnownTypes =>
              (result.ret.out = "None" /\ result.ret.packet = None)

\* from_bytes has taken a packet with a body off a queue that holds more, once for a
\* type byte it does not recognise
C31_Witness ==
    /\ result.op = "from_bytes"
    /\ result.args[1] = 48
    /\ result.args[2] = MaxBodyLen
    /\ result.ret.rest = <<208, 0>>
    /\ result.ret.out = "None"

\* the queue starts with a SUBACK whose body has a packet id
IsSubackWithId(q) == q[1] = 144 /\ q[2] >= 2

\* the code bytes of the SUBACK at the head of queue q
CodeBytes(q) == SubSeq(q, 5, 2 + q[2])

\* the entry the design gives for one code byte
ResultOfCode(b) ==
    IF \E qos \in QOS : QosCode(qos) = b
    THEN Ok(CHOOSE qos \in QOS : QosCode(qos) = b)
    ELSE Err("SubscriptionAckhowledgeFailureError", <<>>)

(* C32: a SUBACK whose body is a packet id followed by n code bytes decodes   *)
(* to a packet with n results in the order of the bytes, 0/1/2 giving granted *)
(* QoS Zero/One/Two and any other byte a SubscriptionAckhowledgeFailureError  *)
(* entry; the packet is returned whatever the codes are, and the match of     *)
(* do_loop hands it to the subscribe callback when one is registered.         *)
C32_SubackCodes ==
    /\ (result.op = "from_bytes" /\ IsSubackWithId(result.args)) =>
          /\ result.ret.out = "Some"
          /\ Unwrap(result.ret.packet).header.fixed.kind = "Suback"
          /\ LET content == Unwrap(Unwrap(result.ret.packet).payload).content
                 codes == CodeBytes(result.args)
             IN  /\ Len(content) = Len(codes)
                 /\ Len(content) = result.args[2] - 2
                 /\ \A i \in 1..Len(codes) : content[i] = ResultOfCode(codes[i])
    /\ (result.op = "dispatch" /\ IsSubackWithId(result.args.queue)) =>
          IF "subscribe" \in result.args.callbacks
          THEN /\ result.ret.out = "call"
               /\ IsSome(result.ret.call)
               /\ Unwrap(result.ret.call).cb = "subscribe"
          ELSE result.ret.call = None

\* a SUBACK with a failure code before a granted one went to the subscribe callback
C32_Witness ==
    /\ result.op = "dispatch"
    /\ IsSubackWithId(result.args.queue)
    /\ CodeBytes(result.args.queue) = <<255, 2>>
    /\ Unwrap(result.args.packet.payload).content =
          <<Err("SubscriptionAckhowledgeFailureError", <<>>), Ok("Two")>>
    /\ result.args.callbacks = {"subscribe"}
    /\ IsSome(result.ret.call)

(* C34: from_bytes does not abort on a queue that starts with a complete     *)
(* packet: whatever the type byte and the length byte are, it returns a      *)
(* packet or no packet.                                                      *)
C34_NoAbortOnCompletePacket ==
    result.op = "from_bytes" => result.ret.out \in {"Some", "None"}

\* queue q starts with a type byte, a length byte and all the body bytes the length
\* byte announces
StartsWithCompletePacket(q) == Len(q) >= 2 /\ Len(q) - 2 >= q[2]

(* C33: every complete packet in the byte queue is dispatched before do_loop *)
(* waits in the next transport read: after a decode attempt, do_loop goes to *)
(* the read only when the queue does not start with a complete packet.       *)
C33_QueueDrainedBeforeRead ==
    (pc = "read" /\ Len(log) > 0 /\ Last(log).ev = "decode") =>
        ~StartsWithCompletePacket(bytes)

\* the bytes of the events of one kind among the first k events of the log, in order
RECURSIVE DataUpTo(_, _)
DataUpTo(ev, k) ==
    IF k = 0 THEN <<>>
    ELSE DataUpTo(ev, k - 1) \o (IF log[k].ev = ev THEN log[k].data ELSE <<>>)

\* the inbound stream: what the reads have delivered
Inbound == DataUpTo("read", Len(log))

(* C35: packets are dispatched in the order of their bytes in the inbound     *)
(* stream and none twice: the byte ranges that the decode attempts take are   *)
(* consecutive ranges of the inbound stream, so that what was taken followed  *)
(* by the queue is the stream; each packet handed to a callback is the        *)
(* decoding of one such range, and a callback runs only for such a packet.    *)
C35_DispatchInArrivalOrder ==
    /\ DataUpTo("decode", Len(log)) \o bytes = Inbound
    /\ \A i \in DOMAIN log :
          (log[i].ev = "decode" /\ IsSome(log[i].packet)) =>
              /\ Len(log[i].data) >= 2
              /\ FromBytes(log[i].data).packet = log[i].packet
              /\ FromBytes(log[i].data).rest = <<>>
              /\ SubSeq(Inbound, Len(DataUpTo("decode", i - 1)) + 1,
                        Len(DataUpTo("decode", i))) = log[i].data
    /\ \A i \in DOMAIN log :
          (log[i].ev = "decode" /\ IsCall(log[i])) => IsSome(log[i].packet)

\* one read delivered two packets, and the callback of the first was invoked before
\* the callback of the second
C35_Witness ==
    \E k, i, j \in DOMAIN log :
        /\ k < i /\ i < j
        /\ log[k].ev = "read"
        /\ log[i].ev = "decode" /\ IsCall(log[i])
        /\ log[j].ev = "decode" /\ IsCall(log[j])
        /\ log[k].data = log[i].data \o log[j].data
        /\ Unwrap(log[i].call).cb = "connect"
        /\ Unwrap(log[j].call).cb = "publish"

====
